---- MODULE Spec2Model ----
(***************************************************************************)
(* Model of the edge access-control gateway (worker.js): the HMAC signer,  *)
(* the paid-cookie codec, the paid course gate and the paid login handler. *)
(*                                                                         *)
(* Strings are sequences of character codes (UTF-16 code units), so that   *)
(* parseInt, String(n), trim/toLowerCase, the e-mail regular expression,   *)
(* btoa's Latin-1 restriction and the per-character XOR of verifySignature *)
(* are computed as the code computes them.                                 *)
(*                                                                         *)
(* Idealisations, stated once:                                             *)
(*  - HMAC-SHA256 is a deterministic collision-free function (HmacSha256   *)
(*    numbers the pairs (text, key), written in DigestBytes bytes).        *)
(*  - base64 and JSON are free encodings: an encoded text is the record of *)
(*    what atob and JSON.parse make of it (field kind: a claim object, an  *)
(*    object without claim fields, JSON null, text that is not JSON, text  *)
(*    that is not base64).                                                 *)
(*  - a cookie value is "empty", a text without '.', or encoded '.' sig;   *)
(*    an encoded part that itself holds a '.' is not base64 ("notb64").    *)
(***************************************************************************)
EXTENDS Integers, Sequences, FiniteSets

VARIABLES
    now,        \* Math.floor(Date.now() / 1000): the clock, in seconds
    minted,     \* codec: the last createPaidCookie call and its outcome
    parsed,     \* codec: the last parsePaidCookie call and its outcome
    verified,   \* codec: the last verifySignature call and its outcome
    req,        \* gateway: the request being handled
    pc,         \* gateway: the handler's position (its next await)
    session,    \* gateway: what parsePaidCookie returned to the gate
    authCalls,  \* gateway: the authority calls made for this request
    resp,       \* gateway: the response returned for this request
    trace,      \* gateway: what the handler touched (cookie read, parse, checks)
    rl,         \* the rate-limit windows stored in caches.default, per key
    msec,       \* Date.now(): the clock in milliseconds, for the rate limiter alone
    rated,      \* rate limiter: the last checkRateLimit call and the calls before it
    jar,        \* the client's cookie jar: the cookies a login response has set
    cache,      \* the ratings payloads stored in caches.default, per resource
    tasks,      \* the ctx.waitUntil promises not yet settled
    backend,    \* the authority's ratings, per resource: a version number
    invalidated,\* the resources whose cache.delete has settled and that no request
                \* has looked up since
    timer,      \* fetchWithTimeout: the setTimeout of the authority call in progress
    procs,      \* checkRateLimit executions in progress: the window each has read
    log,        \* the checkRateLimit executions that have returned, in order
    client,     \* browser: the RatingSystem calls made on the page and its _cache
    widget      \* browser: the interactive stars of the rating card

vars == <<now, minted, parsed, verified, req, pc, session, authCalls, resp, trace, rl,
          msec, rated, jar, cache, tasks, backend, invalidated, timer,
          procs, log, client, widget>>

codecVars == <<minted, parsed, verified>>
gatewayVars == <<req, pc, session, authCalls, resp, trace, rl>>
rateVars == <<msec, rated>>
ratingsVars == <<cache, tasks, backend, invalidated>>
raceVars == <<procs, log>>
pageVars == <<client, widget>>
lateVars == <<timer, raceVars, pageVars>>
extVars == <<rateVars, jar, ratingsVars, lateVars>>

(***************************************************************************)
(* Bounds of the model                                                     *)
(***************************************************************************)
MaxTick == 1          \* clock values 0..MaxTick and, 30 days on, L..L+MaxTick
MaxSegLen == 2        \* length of a resource-id text (path segment, body field)
MaxCourseId == 2      \* resources for which cookies are minted and presented
MaxOverLimit == 1     \* requests a client still sends after its window is full
MaxCalls == 7         \* checkRateLimit calls on one key in a behaviour of the limiter
MaxAdmitted == 1      \* ratings requests a client can still make within its limit
NumProcs == 2         \* executions of checkRateLimit that can be in progress at once
MaxRaceCalls == 3     \* checkRateLimit calls started in one run of the interleaved limiter
MaxClientCalls == 2   \* RatingSystem calls made on one page
WaitSteps == 3        \* half-deadlines a call is watched for after it has been sent
MaxPending == 1       \* waitUntil promises still unsettled when a ratings request arrives
DigestBytes == 4      \* bytes of a digest (SHA-256 has 32): the signature has twice as many characters

(***************************************************************************)
(* Program constants                                                       *)
(***************************************************************************)
DEADLINE_MS == 8000           \* the ms argument of every fetchWithTimeout call
CLIENT_CACHE_TTL == 300000    \* CONFIG.CACHE_TTL of the page's RatingSystem, in ms
MAX_RETRIES == 3              \* CONFIG.MAX_RETRIES
MIN_RATING == 1               \* CONFIG.MIN_RATING
MAX_RATING == 5               \* CONFIG.MAX_RATING
RATINGS_CACHE_TTL == 300
PAID_COOKIE_MAX_AGE == 2592000
MAX_BODY_SIZE == 1024
COOKIE_SECRET == 1

\* the keys in play: the signing secret and one a client may pick
Secrets == {COOKIE_SECRET, COOKIE_SECRET + 1}

Times == (0..MaxTick) \cup {PAID_COOKIE_MAX_AGE + t : t \in 0..MaxTick}

(***************************************************************************)
(* Character codes                                                         *)
(***************************************************************************)
Digits == 48..57
Whitespace == {9, 10, 11, 12, 13, 32, 160}

RECURSIVE SeqsUpTo(_, _)
SeqsUpTo(S, n) ==
    IF n = 0 THEN {<<>>}
    ELSE LET shorter == SeqsUpTo(S, n - 1)
         IN  shorter \cup {Append(s, c) : s \in {t \in shorter : Len(t) = n - 1}, c \in S}

RECURSIVE ToDigits(_)
ToDigits(n) == IF n < 10 THEN <<48 + n>> ELSE Append(ToDigits(n \div 10), 48 + (n % 10))

\* String(n) for an integer n
StringOf(n) == IF n < 0 THEN <<45>> \o ToDigits(0 - n) ELSE ToDigits(n)

\* the string "undefined": String(x.courseId) of an object without that field
StrUndefined == <<117, 110, 100, 101, 102, 105, 110, 101, 100>>

RECURSIVE SkipWhitespace(_)
SkipWhitespace(s) ==
    IF s # <<>> /\ Head(s) \in Whitespace THEN SkipWhitespace(Tail(s)) ELSE s

RECURSIVE DigitsValue(_, _, _)
\* reads the leading digits of s: [seen |-> some digit was read, val |-> their value]
DigitsValue(s, acc, seen) ==
    IF s # <<>> /\ Head(s) \in Digits
    THEN DigitsValue(Tail(s), acc * 10 + (Head(s) - 48), TRUE)
    ELSE [seen |-> seen, val |-> acc]

NaN == [isNaN |-> TRUE, val |-> 0]

\* parseInt(s, 10): leading whitespace, an optional sign, then the longest run of
\* digits; whatever follows the digits is ignored; NaN when there is no digit
parseInt(s) ==
    LET t == SkipWhitespace(s)
        neg == t # <<>> /\ Head(t) = 45
        u == IF t # <<>> /\ Head(t) \in {43, 45} THEN Tail(t) ELSE t
        d == DigitsValue(u, 0, FALSE)
    IN  IF ~d.seen THEN NaN
        ELSE [isNaN |-> FALSE, val |-> IF neg THEN 0 - d.val ELSE d.val]

\* isNaN(courseId) || courseId < 1
InvalidId(n) == n.isNaN \/ n.val < 1

(***************************************************************************)
(* Bitwise operators of the comparison loop                                *)
(***************************************************************************)
RECURSIVE BitXor(_, _)
BitXor(a, b) ==
    IF a = 0 /\ b = 0 THEN 0
    ELSE (((a % 2) + (b % 2)) % 2) + 2 * BitXor(a \div 2, b \div 2)

RECURSIVE BitOr(_, _)
BitOr(a, b) ==
    IF a = 0 /\ b = 0 THEN 0
    ELSE (IF (a % 2) = 1 \/ (b % 2) = 1 THEN 1 ELSE 0) + 2 * BitOr(a \div 2, b \div 2)

(***************************************************************************)
(* Encoded texts (the base64 part of a token)                              *)
(***************************************************************************)
NoEncoded == [kind |-> "none", courseId |-> <<>>, email |-> <<>>, iat |-> 0, exp |-> 0]

\* btoa(JSON.stringify({courseId, email, iat, exp})); exp = 0 stands for a falsy exp
ClaimEnc(c, e, i, x) == [kind |-> "claim", courseId |-> c, email |-> e, iat |-> i, exp |-> x]

NonClaimEnc(k) == [kind |-> k, courseId |-> <<>>, email |-> <<>>, iat |-> 0, exp |-> 0]

\* e-mail texts: "a@b.c", "d@b.c", " A@b.c", "ab.c", "a@bc", "a @b.c", "", and one
\* address whose first letter is U+0639 (an Arabic letter, not Latin-1)
EmailGood == <<97, 64, 98, 46, 99>>
EmailOther == <<100, 64, 98, 46, 99>>
EmailUpper == <<32, 65, 64, 98, 46, 99>>
EmailNoAt == <<97, 98, 46, 99>>
EmailNoDot == <<97, 64, 98>>
EmailSpace == <<97, 32, 64, 98, 46, 99>>
EmailUnicode == <<1593, 64, 98, 46, 99>>

\* the resource-id texts a client can send: over "0", "1", "2", "-", "a"
IdAlphabet == {48, 49, 50, 45, 97}
IdTexts == SeqsUpTo(IdAlphabet, MaxSegLen)

\* every id the gateway can derive from such a text
ValidIds == {parseInt(s).val : s \in {t \in IdTexts : ~InvalidId(parseInt(t))}}

\* the identities tokens are minted for, in a fixed order
TokenEmailSeq == <<EmailGood, EmailOther>>
TokenEmails == {TokenEmailSeq[i] : i \in 1..Len(TokenEmailSeq)}

NonClaimKinds == {"nonclaim", "null", "notjson", "notb64"}

\* A number for each encoded text, different for different texts (mixed radix over
\* its fields): what the collision-free HmacSha256 below is computed from.
KindCode(k) ==
    CASE k = "claim" -> 0 [] k = "nonclaim" -> 1 [] k = "null" -> 2
      [] k = "notjson" -> 3 [] k = "notb64" -> 4
CourseCode(c) == IF c = StrUndefined \/ c = <<>> THEN 0 ELSE parseInt(c).val
EmailCode(e) == IF e = <<>> THEN 0 ELSE CHOOSE i \in 1..Len(TokenEmailSeq) : TokenEmailSeq[i] = e
TimeRadix == 3 * (MaxTick + 1)
TimeCode(t) ==
    IF t < PAID_COOKIE_MAX_AGE THEN t
    ELSE IF t < 2 * PAID_COOKIE_MAX_AGE THEN (MaxTick + 1) + (t - PAID_COOKIE_MAX_AGE)
    ELSE 2 * (MaxTick + 1) + (t - 2 * PAID_COOKIE_MAX_AGE)
RECURSIVE Pow10(_)
Pow10(n) == IF n = 0 THEN 1 ELSE 10 * Pow10(n - 1)
CourseRadix == Pow10(MaxSegLen)
EncodedCode(e) ==
    (((KindCode(e.kind) * CourseRadix + CourseCode(e.courseId)) * (Len(TokenEmailSeq) + 1)
        + EmailCode(e.email)) * TimeRadix + TimeCode(e.iat)) * TimeRadix + TimeCode(e.exp)

(***************************************************************************)
(* HMAC -- cookie signing                                                  *)
(***************************************************************************)
RECURSIVE ToBytes(_, _)
ToBytes(n, k) == IF k = 0 THEN <<>> ELSE <<n % 256>> \o ToBytes(n \div 256, k - 1)

\* crypto.subtle.sign('HMAC', key(secret), payload): 32 bytes, one value per pair
HmacSha256(payload, secret) ==
    ToBytes(EncodedCode(payload) * Cardinality(Secrets) + secret, DigestBytes)

HexDigit(n) == IF n < 10 THEN 48 + n ELSE 87 + n

RECURSIVE HexOf(_)
\* bytes.map(b => b.toString(16).padStart(2, '0')).join('')
HexOf(bytes) ==
    IF bytes = <<>> THEN <<>>
    ELSE <<HexDigit(Head(bytes) \div 16), HexDigit(Head(bytes) % 16)>> \o HexOf(Tail(bytes))

signPayload(payload, secret) == HexOf(HmacSha256(payload, secret))

RECURSIVE VerifyLoopShort(_, _, _, _)
\* mutant: the loop stops one position early (i < expected.length - 1)
VerifyLoopShort(expected, signature, i, mismatch) ==
    IF i >= Len(expected) THEN [mismatch |-> mismatch, steps |-> i - 1]
    ELSE VerifyLoopShort(expected, signature, i + 1,
                         BitOr(mismatch, BitXor(expected[i], signature[i])))

RECURSIVE VerifyLoop(_, _, _, _)
\* for (i = 0; i < expected.length; i++) mismatch |= expected[i] ^ signature[i]
\* (positions are 1-based here); steps counts the positions inspected
VerifyLoop(expected, signature, i, mismatch) ==
    IF i > Len(expected) THEN [mismatch |-> mismatch, steps |-> i - 1]
    ELSE VerifyLoop(expected, signature, i + 1,
                    BitOr(mismatch, BitXor(expected[i], signature[i])))

\* [ok |-> the returned boolean, steps |-> positions the loop inspected]
verifySignatureRun(payload, signature, secret) ==
    LET expected == signPayload(payload, secret)
    IN  IF Len(expected) # Len(signature) THEN [ok |-> FALSE, steps |-> 0]
        ELSE LET r == VerifyLoop(expected, signature, 1, 0)
             IN  [ok |-> r.mismatch = 0, steps |-> r.steps]

verifySignature(payload, signature, secret) ==
    verifySignatureRun(payload, signature, secret).ok

(***************************************************************************)
(* Paid cookie                                                             *)
(***************************************************************************)
NoValue == [form |-> "none", encoded |-> NoEncoded, signature |-> <<>>]
EmptyValue == [form |-> "empty", encoded |-> NoEncoded, signature |-> <<>>]
NoDotValue == [form |-> "nodot", encoded |-> NoEncoded, signature |-> <<>>]

\* `${encoded}.${signature}`
Dotted(encoded, signature) == [form |-> "dotted", encoded |-> encoded, signature |-> signature]

\* `__paid_${courseId}`: the name is identified by the text after the prefix
paidCookieName(courseId) == StringOf(courseId)

\* btoa throws InvalidCharacterError on a character above U+00FF
IsLatin1(s) == \A i \in 1..Len(s) : s[i] <= 255

\* createPaidCookie at time t (seconds): [threw, value]
createPaidCookie(courseId, email, secret, t) ==
    LET encoded == ClaimEnc(StringOf(courseId), email, t, t + PAID_COOKIE_MAX_AGE)
    IN  IF ~IsLatin1(email) THEN [threw |-> TRUE, value |-> NoValue]
        ELSE [threw |-> FALSE, value |-> Dotted(encoded, signPayload(encoded, secret))]

Invalid == [valid |-> FALSE, threw |-> FALSE, data |-> NoEncoded]

\* JSON.parse(atob(encoded)) followed by the read of data.exp: what throws inside
\* the try block
DecodeThrows(encoded) == encoded.kind \in {"notb64", "notjson", "null"}

\* parsePaidCookie at time t (seconds): null is Invalid
parsePaidCookie(cookieValue, secret, t) ==
    IF cookieValue.form \in {"none", "empty"} THEN Invalid
    ELSE IF cookieValue.form = "nodot" THEN Invalid
    ELSE IF ~verifySignature(cookieValue.encoded, cookieValue.signature, secret) THEN Invalid
    ELSE IF DecodeThrows(cookieValue.encoded) THEN Invalid
    ELSE IF cookieValue.encoded.exp # 0 /\ cookieValue.encoded.exp < t THEN Invalid
    ELSE [valid |-> TRUE, threw |-> FALSE, data |-> cookieValue.encoded]

\* String(session.courseId)
SessionCourse(data) == IF data.kind = "claim" THEN data.courseId ELSE StrUndefined

(***************************************************************************)
(* Requests, responses and the rate-limit store                            *)
(***************************************************************************)
NoRating == [kind |-> "absent", text |-> StrUndefined]
NoBody == [form |-> "unread", size |-> 0, emailIsString |-> FALSE, email |-> <<>>,
           passwordLen |-> 0 - 1, courseId |-> <<>>, rating |-> NoRating, ip |-> ""]

NoParam == [present |-> FALSE, text |-> <<>>]
NoRequest == [route |-> "none", method |-> "", segment |-> <<>>, cookies |-> <<>>,
              origin |-> "", contentType |-> "", ip |-> "", body |-> NoBody,
              courseIdParam |-> NoParam]

NoCookie == [name |-> <<>>, value |-> NoValue, path |-> <<>>, maxAge |-> 0]

NoPayload == [status |-> "", version |-> 0]
NoResponse == [status |-> 0, kind |-> "", location |-> "", setCookie |-> NoCookie,
               retryAfter |-> 0 - 1, pageCourse |-> 0, redirect |-> <<>>, cors |-> FALSE,
               payload |-> NoPayload]

NoTrace == [cookieRead |-> FALSE, parseCalls |-> 0, rateChecked |-> FALSE,
            rateAllowed |-> FALSE, bodyRead |-> FALSE, cacheRead |-> FALSE,
            cacheHit |-> FALSE, puts |-> {}, deletes |-> {}]

\* new Response(body, {status, headers}) of the gate and the page builders
PlainResponse(status, kind) == [NoResponse EXCEPT !.status = status, !.kind = kind]

\* jsonResponse(status, {status: 'error', message}, cors)
jsonResponse(status, message, cors) ==
    [NoResponse EXCEPT !.status = status, !.kind = message, !.cors = cors]

\* buildPaidLoginPage(courseId, null, whatsappNumber): 200, COURSE_ID = courseId
buildPaidLoginPage(courseId) ==
    [NoResponse EXCEPT !.status = 200, !.kind = "login-page", !.pageCourse = courseId]

\* buildErrorPage('Course Unavailable', ..., whatsappNumber, 503)
buildErrorPage(statusCode) ==
    [NoResponse EXCEPT !.status = statusCode, !.kind = "error-page"]

\* the catch of the entry point: jsonResponse(500, 'Internal server error')
InternalError == jsonResponse(500, "Internal server error", FALSE)

(***************************************************************************)
(* Cookie parser                                                           *)
(***************************************************************************)
RECURSIVE getCookie(_, _)
\* the value of the first cookie of the header with that name; NoValue is null
getCookie(cookies, name) ==
    IF cookies = <<>> THEN NoValue
    ELSE IF Head(cookies).name = name THEN Head(cookies).value
    ELSE getCookie(Tail(cookies), name)

\* if (cookieValue): null and the empty string are falsy
Truthy(cookieValue) == cookieValue.form \notin {"none", "empty"}

buildPaidCookieHeader(courseId, value) ==
    [name |-> paidCookieName(courseId), value |-> value, path |-> StringOf(courseId),
     maxAge |-> PAID_COOKIE_MAX_AGE]

(***************************************************************************)
(* The authority (Apps Script), as the gateway sees it                     *)
(***************************************************************************)
DriveUrl == "https://drive.example/folder"

\* what a call can end in: the fetch rejects (network error, abort by the 8 s
\* timer), a non-2xx status, a body that is not JSON, JSON null, or a JSON object
FailedReplies == {"neterror", "timeout", "non2xx", "badjson"}
DriveReplies == FailedReplies \cup {"null", "nofield", "nonstring", "empty", "url"}
VerifyReplies == FailedReplies \cup {"null", "nofield", "false", "true", "truthy"}

NoCall == [action |-> "", courseId |-> <<>>, email |-> <<>>, passwordLen |-> 0, reply |-> "",
           rating |-> 0, ip |-> ""]

\* mutant: data.driveUrl is returned without the typeof check
getDriveUrlUnchecked(reply) ==
    IF reply \in FailedReplies \cup {"null", "nofield", "empty"} THEN "" ELSE DriveUrl

\* getDriveUrl: the location, or "" for null
getDriveUrl(reply) ==
    IF reply \in FailedReplies THEN ""        \* !res.ok, or the catch
    ELSE IF reply = "null" THEN ""            \* data.driveUrl throws, the catch
    ELSE IF reply = "url" THEN DriveUrl       \* a non-empty string
    ELSE ""                                   \* missing, not a string, or ''

(***************************************************************************)
(* Rate limiting                                                           *)
(***************************************************************************)
RateWindow(action) ==
    CASE action = "PAID_LOGIN" -> 60 [] action = "GET_RATINGS" -> 60 [] action = "POST_RATINGS" -> 60

RateMax(action) ==
    CASE action = "PAID_LOGIN" -> 5 [] action = "GET_RATINGS" -> 30 [] action = "POST_RATINGS" -> 5

NoWindow == [present |-> FALSE, count |-> 0, windowStart |-> 0, expires |-> 0]

\* request.headers.get('CF-Connecting-IP') || 'unknown'
ClientIp(r) == IF r.ip = "none" THEN "unknown" ELSE r.ip

Max(a, b) == IF a >= b THEN a ELSE b

\* Math.ceil(x / 1000) for x >= 0
CeilSeconds(x) == (x + 999) \div 1000

\* mutant: the request that reaches the limit is refused (count < max)
WithinLimitStrict(count, action) == count < RateMax(action)

\* data.count <= config.max
WithinLimit(count, action) == count <= RateMax(action)

\* mutant: an entry is served however old it is
CacheHitStale(entry, t) == entry.present

\* cache.match on an entry stored with max-age: a hit while its age is below max-age
CacheHit(entry, t) == entry.present /\ t < entry.expires

\* checkRateLimit(ip, action) run at Date.now() = t (milliseconds) on the store:
\* the window read from the cache or a new one, the reset when the window is
\* older than windowMs, the increment, and the write with its ttl in seconds
checkRateLimit(ip, action, t, store) ==
    LET key == <<action, ip>>
        cached == store[key]
        read == IF CacheHit(cached, t)
                THEN [count |-> cached.count, windowStart |-> cached.windowStart]
                ELSE [count |-> 0, windowStart |-> t]
        windowMs == RateWindow(action) * 1000
        fresh == IF t - read.windowStart > windowMs
                 THEN [count |-> 0, windowStart |-> t] ELSE read
        count == fresh.count + 1
        resetAt == fresh.windowStart + windowMs
        ttlSeconds == Max(1, CeilSeconds(resetAt - t))
    IN  [store |-> [store EXCEPT ![key] = [present |-> TRUE, count |-> count,
                                           windowStart |-> fresh.windowStart,
                                           expires |-> t + ttlSeconds * 1000]],
         allowed |-> WithinLimit(count, action),
         remaining |-> Max(0, RateMax(action) - count),
         resetAt |-> resetAt]

ClientIps == {"198.51.100.7", "none"}
RateActions == {"PAID_LOGIN", "GET_RATINGS", "POST_RATINGS"}
RlKeys == {<<a, IF i = "none" THEN "unknown" ELSE i>> : a \in RateActions, i \in ClientIps}
NoWindows == [k \in RlKeys |-> NoWindow]

(***************************************************************************)
(* The codec exercised as functions: SpecCodec                             *)
(***************************************************************************)
NoMinted == [done |-> FALSE, courseId |-> 0, email |-> <<>>, secret |-> 0, at |-> 0,
             threw |-> FALSE, value |-> NoValue]
NoParsed == [done |-> FALSE, value |-> NoValue, secret |-> 0, at |-> 0, result |-> Invalid]
NoVerified == [done |-> FALSE, payload |-> NoEncoded, signature |-> <<>>, secret |-> 0,
               ok |-> FALSE, steps |-> 0]

\* subjects of a claim: lower-cased, non-empty identities
Subjects == {EmailGood, EmailOther, EmailUnicode}

\* the encoded texts handed to the codec: claims for the resources 1..MaxCourseId
\* issued at 0..MaxTick with no exp or exp = iat + lifetime, and the non-claims
CodecEncodeds ==
    {ClaimEnc(StringOf(c), EmailGood, i, x) :
        c \in 1..MaxCourseId, i \in 0..MaxTick,
        x \in {0} \cup {t + PAID_COOKIE_MAX_AGE : t \in 0..MaxTick}}
    \cup {NonClaimEnc(k) : k \in NonClaimKinds}

\* sig with bit b (a power of two) of the character at position i flipped
FlipBit(sig, i, b) == [sig EXCEPT ![i] = BitXor(sig[i], b)]

\* the signatures tried against sign(p, s): every signature of the universe, every
\* single-position change of the right one (bit 0 at each position, each of the
\* seven low bits at position 1), one character less, one more, and none
AllSignatures == {signPayload(q, k) : q \in CodecEncodeds, k \in Secrets}

SignaturesAgainst(p, s) ==
    LET base == signPayload(p, s)
    IN  AllSignatures
        \cup {FlipBit(base, i, 1) : i \in 1..Len(base)}
        \cup {FlipBit(base, 1, b) : b \in {2, 4, 8, 16, 32, 64}}
        \cup {SubSeq(base, 1, Len(base) - 1), Append(base, 48), <<>>}

\* the cookie values handed to parsePaidCookie
CodecValues ==
    {EmptyValue, NoDotValue}
    \cup {Dotted(e, signPayload(e, k)) : e \in CodecEncodeds, k \in Secrets}
    \cup {Dotted(e, FlipBit(signPayload(e, COOKIE_SECRET), 2 * DigestBytes, 1)) : e \in CodecEncodeds}
    \cup {Dotted(e, signPayload(f, COOKIE_SECRET)) : e \in CodecEncodeds, f \in CodecEncodeds}

\* the rate-limit call record, the cookie jar, the ratings cache and the waitUntil
\* promises before anything has run
NoProc == [pc |-> "idle", action |-> "", count |-> 0, windowStart |-> 0]
NoRated == [done |-> FALSE, action |-> "", ip |-> "", at |-> 0, before |-> NoWindow,
            allowed |-> FALSE, remaining |-> 0, resetAt |-> 0, times |-> <<>>]
NoEntry == [present |-> FALSE, payload |-> NoPayload, expires |-> 0]
RatingCourses == 1..MaxCourseId
NoRatingsCache == [c \in RatingCourses |-> NoEntry]
NoRatings == [c \in RatingCourses |-> 0]

\* var _cache = new Map(), empty, and no call made yet
NoClientEntry == [present |-> FALSE, timestamp |-> 0, data |-> "none"]
NoClient == [calls |-> <<>>, cache |-> NoClientEntry]

\* renderStars(0, true): the stars enabled, nothing selected or highlighted
NoWidget == [disabled |-> FALSE, selected |-> 0, highlight |-> 0, focus |-> 1,
             waiting |-> {}, submitted |-> 0, status |-> ""]

InitRest ==
    /\ msec = 0
    /\ rated = NoRated
    /\ jar = <<>>
    /\ tasks = {}
    /\ backend = NoRatings
    /\ invalidated = {}
    /\ timer = "none"
    /\ procs = [p \in 1..NumProcs |-> NoProc]
    /\ log = <<>>
    /\ client = NoClient
    /\ widget = NoWidget

InitExt == InitRest /\ cache = NoRatingsCache

InitCodec ==
    /\ now = 0
    /\ minted = NoMinted
    /\ parsed = NoParsed
    /\ verified = NoVerified
    /\ req = NoRequest
    /\ pc = "idle"
    /\ session = Invalid
    /\ authCalls = <<>>
    /\ resp = NoResponse
    /\ trace = NoTrace
    /\ rl = NoWindows
    /\ InitExt

CodecIdle == ~minted.done /\ ~parsed.done /\ ~verified.done

\* time passes (between calls, and between minting a token and parsing it)
Tick ==
    /\ pc = "idle"
    /\ ~parsed.done /\ ~verified.done
    /\ \E t \in Times : t > now /\ now' = t
    /\ UNCHANGED <<codecVars, gatewayVars, extVars>>

CallCreate ==
    \E c \in 1..MaxCourseId, e \in Subjects, s \in Secrets :
        LET r == createPaidCookie(c, e, s, now)
        IN  /\ CodecIdle
            /\ now <= MaxTick
            /\ minted' = [done |-> TRUE, courseId |-> c, email |-> e, secret |-> s,
                          at |-> now, threw |-> r.threw, value |-> r.value]
            /\ UNCHANGED <<now, parsed, verified, gatewayVars, extVars>>

\* parse the token just minted, with any secret, at the current time
CallParseMinted ==
    \E s \in Secrets :
        /\ minted.done /\ ~minted.threw /\ ~parsed.done
        /\ parsed' = [done |-> TRUE, value |-> minted.value, secret |-> s, at |-> now,
                      result |-> parsePaidCookie(minted.value, s, now)]
        /\ UNCHANGED <<now, minted, verified, gatewayVars, extVars>>

\* parse any cookie value
CallParse ==
    \E v \in CodecValues, s \in Secrets :
        /\ CodecIdle
        /\ parsed' = [done |-> TRUE, value |-> v, secret |-> s, at |-> now,
                      result |-> parsePaidCookie(v, s, now)]
        /\ UNCHANGED <<now, minted, verified, gatewayVars, extVars>>

CallVerify ==
    \E p \in CodecEncodeds, s \in Secrets :
        \E g \in SignaturesAgainst(p, s) :
            LET r == verifySignatureRun(p, g, s)
            IN  /\ CodecIdle
                /\ now = 0
                /\ verified' = [done |-> TRUE, payload |-> p, signature |-> g, secret |-> s,
                                ok |-> r.ok, steps |-> r.steps]
                /\ UNCHANGED <<now, minted, parsed, gatewayVars, extVars>>

\* the caller takes the result
CodecReturn ==
    /\ ~CodecIdle
    /\ minted' = NoMinted
    /\ parsed' = NoParsed
    /\ verified' = NoVerified
    /\ UNCHANGED <<now, gatewayVars, extVars>>

(***************************************************************************)
(* Paid course gate                                                        *)
(***************************************************************************)
\* parts[3] ? parseInt(parts[3], 10) : NaN
GateCourseId(r) == IF r.segment = <<>> THEN NaN ELSE parseInt(r.segment)

\* mutant: the session is not compared with the requested course
GateAuthorizedAnyCourse(s, courseId) == s.valid

\* session && String(session.courseId) === String(courseId)
GateAuthorized(s, courseId) == s.valid /\ SessionCourse(s.data) = StringOf(courseId)

\* the tokens createPaidCookie has minted by time t, in the first MaxTick
\* seconds, for the resources 1..MaxCourseId
MintedTokens(t) ==
    {createPaidCookie(c, EmailGood, COOKIE_SECRET, u).value :
        c \in 1..MaxCourseId, u \in {v \in 0..MaxTick : v <= t}}

\* what a client without the signing secret can make of a minted token: its
\* payload for another resource or with a later expiry under the old signature,
\* the payload signed with a secret of its own, a signature changed in its last
\* character or cut short
Tampered(v) ==
    {Dotted([v.encoded EXCEPT !.courseId = StringOf(c)], v.signature) : c \in 1..MaxCourseId}
    \cup {Dotted([v.encoded EXCEPT !.exp = @ + PAID_COOKIE_MAX_AGE], v.signature)}
    \cup {Dotted(v.encoded, signPayload(v.encoded, k)) : k \in Secrets \ {COOKIE_SECRET}}
    \cup {Dotted(v.encoded, FlipBit(v.signature, Len(v.signature), 1)),
          Dotted(v.encoded, SubSeq(v.signature, 1, Len(v.signature) - 1))}

GateValues(t) ==
    {EmptyValue, NoDotValue}
    \cup MintedTokens(t)
    \cup UNION {Tampered(v) : v \in MintedTokens(t)}
    \cup {Dotted(NonClaimEnc(k), signPayload(NonClaimEnc(k), s)) :
            k \in NonClaimKinds, s \in Secrets \ {COOKIE_SECRET}}

\* cookie names `__paid_<text>`: those of the resources, and "__paid_01"
CookieNames == {paidCookieName(c) : c \in 1..MaxCourseId} \cup {<<48, 49>>}

Cookie(n, v) == [name |-> n, value |-> v]

\* Cookie headers with no cookie, or a token minted at 0 behind another cookie
TwoCookieHeaders ==
    {<<>>}
    \cup {<<Cookie(n, NoDotValue),
             Cookie(paidCookieName(c), createPaidCookie(c, EmailGood, COOKIE_SECRET, 0).value)>> :
            n \in CookieNames, c \in 1..MaxCourseId}

\* Cookie headers: those, or one cookie of any name and value
CookieHeaders(t) ==
    TwoCookieHeaders \cup {<<Cookie(n, v)>> : n \in CookieNames, v \in GateValues(t)}

GateMethods == {"GET", "POST"}

GateRequests(t) ==
    {[NoRequest EXCEPT !.route = "gate", !.method = m, !.segment = g, !.cookies = h] :
        m \in GateMethods, g \in IdTexts, h \in CookieHeaders(t)}

\* handleRequest routes /course/paid/* to handlePaidCourseGate, which runs to its
\* first await: 404, the login page, or on to parsePaidCookie
GateRequestFrom(requests) ==
    /\ pc = "idle"
    /\ CodecIdle
    /\ \E r \in requests :
        LET courseId == GateCourseId(r)
            cookieValue == getCookie(r.cookies, paidCookieName(courseId.val))
        IN  /\ req' = r
            /\ session' = Invalid
            /\ authCalls' = <<>>
            /\ IF InvalidId(courseId)
               THEN /\ resp' = PlainResponse(404, "Not Found")
                    /\ trace' = NoTrace
                    /\ pc' = "done"
               ELSE /\ trace' = [NoTrace EXCEPT !.cookieRead = TRUE]
                    /\ IF Truthy(cookieValue)
                       THEN resp' = NoResponse /\ pc' = "parse"
                       ELSE resp' = buildPaidLoginPage(courseId.val) /\ pc' = "done"
    /\ UNCHANGED <<now, codecVars, rl, extVars>>

\* a gate request with any segment and any Cookie header arrives
GateRequest == GateRequestFrom(GateRequests(now))

\* const session = await parsePaidCookie(cookieValue, env.COOKIE_SECRET), then the
\* comparison with the requested course: on to getDriveUrl, or the login page
GateParse ==
    /\ pc = "parse"
    /\ LET courseId == GateCourseId(req).val
           cookieValue == getCookie(req.cookies, paidCookieName(courseId))
           s == parsePaidCookie(cookieValue, COOKIE_SECRET, now)
       IN  /\ session' = s
           /\ trace' = [trace EXCEPT !.parseCalls = @ + 1]
           /\ IF GateAuthorized(s, courseId)
              THEN /\ authCalls' = <<[NoCall EXCEPT !.action = "getDriveUrl",
                                                    !.courseId = StringOf(courseId),
                                                    !.reply = "pending"]>>
                   /\ resp' = resp
                   /\ pc' = "drive"
              ELSE /\ authCalls' = authCalls
                   /\ resp' = buildPaidLoginPage(courseId)
                   /\ pc' = "done"
    /\ UNCHANGED <<now, codecVars, req, rl, extVars>>

\* mutant: a call that failed is sent once more
CallsAfterRetry(calls, reply) ==
    IF reply \in FailedReplies
    THEN Append([calls EXCEPT ![1].reply = reply], [calls[1] EXCEPT !.reply = "pending"])
    ELSE [calls EXCEPT ![1].reply = reply]

\* the calls of the request once its one call has ended in reply: the try block
\* of getDriveUrl has no loop and its catch returns null
CallsAfter(calls, reply) == [calls EXCEPT ![1].reply = reply]

\* const driveUrl = await getDriveUrl(courseId, env): 503 page or 302
GateDriveUrl ==
    /\ pc = "drive"
    /\ \E reply \in DriveReplies :
        LET driveUrl == getDriveUrl(reply)
        IN  /\ authCalls' = CallsAfter(authCalls, reply)
            /\ resp' = IF driveUrl = "" THEN buildErrorPage(503)
                       ELSE [NoResponse EXCEPT !.status = 302, !.location = driveUrl]
            /\ pc' = "done"
    /\ UNCHANGED <<now, codecVars, req, session, trace, rl, extVars>>

\* the response is sent; the next request starts from a clean execution
Deliver ==
    /\ pc = "done"
    /\ pc' = "idle"
    /\ req' = NoRequest
    /\ session' = Invalid
    /\ authCalls' = <<>>
    /\ resp' = NoResponse
    /\ trace' = NoTrace
    /\ UNCHANGED <<now, codecVars, rl, extVars>>

InitRun ==
    /\ now = 0
    /\ minted = NoMinted
    /\ parsed = NoParsed
    /\ verified = NoVerified
    /\ req = NoRequest
    /\ pc = "idle"
    /\ session = Invalid
    /\ authCalls = <<>>
    /\ resp = NoResponse
    /\ trace = NoTrace

InitIdle == InitRun /\ InitExt

InitGateway == InitIdle /\ rl = NoWindows

\* requests on the paths that no route of handleRequest names: another path
\* under /api/ and a path of the site
OtherRequests ==
    {[NoRequest EXCEPT !.route = p, !.method = m, !.origin = o] :
        p \in {"api-other", "site"}, m \in {"GET", "POST", "OPTIONS"},
        o \in {"none", "allowed", "other"}}

\* return fetch(request): the origin's answer, passed on as it is
OriginResponse == [NoResponse EXCEPT !.status = 200, !.kind = "origin"]

\* handleRequest on such a path: the preflight answer for OPTIONS under /api/,
\* the origin's answer for everything else
OtherRequest ==
    /\ pc = "idle"
    /\ CodecIdle
    /\ \E r \in OtherRequests :
        /\ req' = r
        /\ resp' = IF r.method = "OPTIONS" /\ r.route = "api-other"
                   THEN [NoResponse EXCEPT !.status = 204, !.kind = "preflight", !.cors = TRUE]
                   ELSE OriginResponse
    /\ pc' = "done"
    /\ session' = Invalid
    /\ authCalls' = <<>>
    /\ trace' = NoTrace
    /\ UNCHANGED <<now, codecVars, rl, extVars>>

NextGate == Tick \/ GateRequest \/ GateParse \/ GateDriveUrl \/ OtherRequest \/ Deliver

SpecGate == InitGateway /\ [][NextGate]_vars

(***************************************************************************)
(* Paid login                                                              *)
(***************************************************************************)
\* mutant: a request without an Origin header is refused
isOriginAllowedStrict(r) == r.origin = "allowed"

\* origin === env.ALLOWED_ORIGIN, or no Origin header
isOriginAllowed(r) == r.origin = "none" \/ r.origin = "allowed"

RECURSIVE TrimEnd(_)
TrimEnd(s) ==
    IF s # <<>> /\ s[Len(s)] \in Whitespace THEN TrimEnd(SubSeq(s, 1, Len(s) - 1)) ELSE s

\* String.prototype.trim
Trim(s) == TrimEnd(SkipWhitespace(s))

\* String.prototype.toLowerCase on the characters of the model (A-Z)
ToLowerCase(s) == [i \in 1..Len(s) |-> IF s[i] \in 65..90 THEN s[i] + 32 ELSE s[i]]

\* /^[^\s@]+@[^\s@]+\.[^\s@]+$/.test(s)
EmailShape(s) ==
    \E k \in 1..Len(s), j \in 1..Len(s) :
        /\ 1 < k /\ k + 1 < j /\ j < Len(s)
        /\ s[k] = 64
        /\ s[j] = 46
        /\ \A i \in 1..Len(s) : s[i] \notin Whitespace /\ (s[i] = 64 => i = k)

\* typeof body.email === 'string' ? body.email.trim().toLowerCase() : ''
BodyEmail(b) ==
    IF b.form = "object" /\ b.emailIsString THEN ToLowerCase(Trim(b.email)) ELSE <<>>

\* typeof body.password === 'string' ? body.password : '' (its length)
BodyPasswordLen(b) == IF b.form = "object" /\ b.passwordLen >= 0 THEN b.passwordLen ELSE 0

\* parseInt(body.courseId, 10)
BodyCourseId(b) == IF b.form = "object" THEN parseInt(b.courseId) ELSE NaN

LoginEmails == {EmailGood, EmailUpper, EmailNoAt, EmailNoDot, EmailUnicode}
PasswordLens == {0 - 1, 0, 3, 4, 128, 129}

ObjectBody(size, isStr, e, p, c) ==
    [form |-> "object", size |-> size, emailIsString |-> isStr, email |-> e,
     passwordLen |-> p, courseId |-> c]

\* request bodies: JSON objects with every combination of the three fields (an
\* absent or non-string e-mail, a non-string password of length -1), one object of
\* exactly MAX_BODY_SIZE characters and one of one more, text that is not JSON,
\* the JSON value null and a JSON scalar
LoginBodies ==
    {ObjectBody(64, TRUE, e, p, c) : e \in LoginEmails, p \in PasswordLens, c \in IdTexts}
    \cup {ObjectBody(64, FALSE, <<>>, p, c) : p \in PasswordLens, c \in IdTexts}
    \cup {ObjectBody(MAX_BODY_SIZE, TRUE, EmailGood, 4, <<49>>),
          ObjectBody(MAX_BODY_SIZE + 1, TRUE, EmailGood, 4, <<49>>)}
    \cup {[NoBody EXCEPT !.form = f, !.size = 8] : f \in {"notjson", "null", "scalar"}}

LoginIps == {"198.51.100.7"}

LoginRequests ==
    {[NoRequest EXCEPT !.route = "login", !.method = m, !.origin = o,
                       !.contentType = t, !.ip = i] :
        m \in {"POST", "GET", "OPTIONS"}, o \in {"none", "allowed", "other"},
        t \in {"json", "other"}, i \in LoginIps}

\* handleRequest and handlePaidLogin up to the first await: the CORS preflight,
\* the origin, method and content-type checks
LoginRequestFrom(requests) ==
    /\ pc = "idle"
    /\ CodecIdle
    /\ \E r \in requests :
        /\ rl[<<"PAID_LOGIN", ClientIp(r)>>].count < RateMax("PAID_LOGIN") + MaxOverLimit
        /\ req' = r
        /\ IF r.method = "OPTIONS"
           THEN resp' = [NoResponse EXCEPT !.status = 204, !.kind = "preflight", !.cors = TRUE]
                /\ pc' = "done"
           ELSE IF ~isOriginAllowed(r)
           THEN resp' = jsonResponse(403, "Origin not allowed", FALSE) /\ pc' = "done"
           ELSE IF r.method # "POST"
           THEN resp' = jsonResponse(405, "Method not allowed", TRUE) /\ pc' = "done"
           ELSE IF r.contentType # "json"
           THEN resp' = jsonResponse(400, "Content-Type must be application/json", TRUE)
                /\ pc' = "done"
           ELSE resp' = NoResponse /\ pc' = "ratelimit"
    /\ session' = Invalid
    /\ authCalls' = <<>>
    /\ trace' = NoTrace
    /\ UNCHANGED <<now, codecVars, rl, extVars>>

\* a login request with any headers arrives
LoginRequest == LoginRequestFrom(LoginRequests)

\* const rateCheck = await checkRateLimit(ip, 'PAID_LOGIN')
LoginRateLimit ==
    /\ pc = "ratelimit"
    /\ LET rateCheck == checkRateLimit(ClientIp(req), "PAID_LOGIN", now * 1000, rl)
       IN  /\ rl' = rateCheck.store
           /\ trace' = [trace EXCEPT !.rateChecked = TRUE, !.rateAllowed = rateCheck.allowed]
           /\ IF ~rateCheck.allowed
              THEN /\ resp' = [jsonResponse(429, "Too many attempts. Please wait a moment.", TRUE)
                                  EXCEPT !.retryAfter = CeilSeconds(rateCheck.resetAt - now * 1000)]
                   /\ pc' = "done"
              ELSE /\ resp' = resp
                   /\ pc' = "body"
    /\ UNCHANGED <<now, codecVars, req, session, authCalls, extVars>>

\* what handlePaidLogin answers to the body b before any authority call; status 0
\* means that every check passed. A null body makes body.email throw outside the
\* try block: the entry point answers 500.
LoginValidate(b) ==
    IF b.size > MAX_BODY_SIZE THEN jsonResponse(400, "Request too large", TRUE)
    ELSE IF b.form = "notjson" THEN jsonResponse(400, "Invalid JSON", TRUE)
    ELSE IF b.form = "null" THEN InternalError
    ELSE IF BodyEmail(b) = <<>> \/ ~EmailShape(BodyEmail(b))
    THEN jsonResponse(400, "Valid email address is required", TRUE)
    ELSE IF BodyPasswordLen(b) = 0 \/ BodyPasswordLen(b) < 4 \/ BodyPasswordLen(b) > 128
    THEN jsonResponse(400, "Invalid credentials", TRUE)
    ELSE IF InvalidId(BodyCourseId(b)) THEN jsonResponse(400, "Invalid course", TRUE)
    ELSE NoResponse

\* const raw = await request.text(), the parse and the validation, then the
\* verifyAccess call is sent
LoginReadBodyFrom(bodies) ==
    /\ pc = "body"
    /\ \E b \in bodies :
        LET answer == LoginValidate(b)
        IN  /\ req' = [req EXCEPT !.body = b]
            /\ trace' = [trace EXCEPT !.bodyRead = TRUE]
            /\ IF answer.status # 0
               THEN /\ resp' = answer
                    /\ authCalls' = authCalls
                    /\ pc' = "done"
               ELSE /\ resp' = resp
                    /\ authCalls' = <<[NoCall EXCEPT !.action = "verifyAccess",
                                                     !.email = BodyEmail(b),
                                                     !.passwordLen = BodyPasswordLen(b),
                                                     !.courseId = StringOf(BodyCourseId(b).val),
                                                     !.reply = "pending"]>>
                    /\ pc' = "verify"
    /\ UNCHANGED <<now, codecVars, session, rl, extVars>>

\* the request carries any body
LoginReadBody == LoginReadBodyFrom(LoginBodies)

\* what handlePaidLogin answers once the verifyAccess call has ended in reply
LoginAnswer(b, reply, t) ==
    LET courseId == BodyCourseId(b).val
        cookie == createPaidCookie(courseId, BodyEmail(b), COOKIE_SECRET, t)
    IN  IF reply = "non2xx" THEN jsonResponse(502, "Verification service error", TRUE)
        ELSE IF reply \in FailedReplies
        THEN jsonResponse(502, "Verification service unavailable", TRUE)
        ELSE IF reply = "null" THEN InternalError     \* scriptResult.valid throws
        ELSE IF reply \in {"nofield", "false"}
        THEN jsonResponse(401,
                 "Invalid email or password, or you are not enrolled in this course.", TRUE)
        ELSE IF cookie.threw THEN InternalError       \* btoa throws in createPaidCookie
        ELSE [jsonResponse(200, "success", TRUE) EXCEPT
                 !.redirect = StringOf(courseId),
                 !.setCookie = buildPaidCookieHeader(courseId, cookie.value)]

\* the verifyAccess call ends
LoginVerify ==
    /\ pc = "verify"
    /\ \E reply \in VerifyReplies :
        /\ authCalls' = [authCalls EXCEPT ![1].reply = reply]
        /\ resp' = LoginAnswer(req.body, reply, now)
        /\ pc' = "done"
    /\ UNCHANGED <<now, codecVars, req, session, trace, rl, extVars>>

\* time passes within the rate-limit window
TickSoon ==
    /\ pc = "idle"
    /\ CodecIdle
    /\ now < MaxTick
    /\ now' = now + 1
    /\ UNCHANGED <<codecVars, gatewayVars, extVars>>

NextLogin ==
    TickSoon \/ LoginRequest \/ LoginRateLimit \/ LoginReadBody \/ LoginVerify \/ Deliver

SpecLogin == InitGateway /\ [][NextLogin]_vars

(***************************************************************************)
(* A client that logs in and then opens the course: SpecSession            *)
(***************************************************************************)
\* well-formed login requests and bodies: an allowed origin, POST, JSON, an e-mail
\* of the right shape, a password of 4 characters, a resource id in canonical form
SessionLogins ==
    {[NoRequest EXCEPT !.route = "login", !.method = "POST", !.origin = o,
                       !.contentType = "json", !.ip = i] :
        o \in {"none", "allowed"}, i \in LoginIps}

SessionBodies ==
    {ObjectBody(64, TRUE, e, 4, StringOf(c)) :
        e \in {EmailGood, EmailUpper, EmailUnicode}, c \in 1..MaxCourseId}

\* the client has no cookie yet and logs in
SessionLogin ==
    /\ jar = <<>>
    /\ now <= MaxTick
    /\ LoginRequestFrom(SessionLogins)

SessionReadBody == LoginReadBodyFrom(SessionBodies)

\* the browser sends the cookies of its jar with a GET for a course page
SessionGates ==
    {[NoRequest EXCEPT !.route = "gate", !.method = "GET", !.segment = StringOf(c),
                       !.cookies = jar] : c \in 1..MaxCourseId}

SessionGate ==
    /\ jar # <<>>
    /\ GateRequestFrom(SessionGates)

\* the response reaches the browser, which stores the cookie of a Set-Cookie header
Receive ==
    /\ pc = "done"
    /\ pc' = "idle"
    /\ jar' = IF resp.setCookie # NoCookie
              THEN <<Cookie(resp.setCookie.name, resp.setCookie.value)>>
              ELSE jar
    /\ req' = NoRequest
    /\ session' = Invalid
    /\ authCalls' = <<>>
    /\ resp' = NoResponse
    /\ trace' = NoTrace
    /\ UNCHANGED <<now, codecVars, rl, rateVars, ratingsVars, lateVars>>

NextSession ==
    \/ Tick \/ SessionLogin \/ LoginRateLimit \/ SessionReadBody \/ LoginVerify
    \/ SessionGate \/ GateParse \/ GateDriveUrl \/ Receive

SpecSession == InitGateway /\ [][NextSession]_vars

(***************************************************************************)
(* The rate limiter called in sequence on one key: SpecRate                *)
(***************************************************************************)
\* the instants (ms) of the calls: the start, inside the first window (on and off
\* a whole second), its last instant and boundary, and later
RateTimes == {0, 500, 59500, 59999, 60000, 60001, 60500, 120500}

\* the limits of 5 per minute; GET_RATINGS (30) runs the same code
SequencedActions == {"PAID_LOGIN", "POST_RATINGS"}

RateKey == <<rated.action, "198.51.100.7">>

RateTick ==
    /\ \E t \in RateTimes : t > msec /\ msec' = t
    /\ UNCHANGED <<now, codecVars, gatewayVars, rated, jar, ratingsVars, lateVars>>

\* one whole checkRateLimit call, not interleaved with another
RateCall ==
    /\ Len(rated.times) < MaxCalls
    /\ \E a \in SequencedActions :
        /\ rated.done => a = rated.action
        /\ LET r == checkRateLimit("198.51.100.7", a, msec, rl)
           IN  /\ rl' = r.store
               /\ rated' = [done |-> TRUE, action |-> a, ip |-> "198.51.100.7", at |-> msec,
                            before |-> rl[<<a, "198.51.100.7">>],
                            allowed |-> r.allowed, remaining |-> r.remaining,
                            resetAt |-> r.resetAt, times |-> Append(rated.times, msec)]
    /\ UNCHANGED <<now, codecVars, req, pc, session, authCalls, resp, trace, msec, jar,
                   ratingsVars, lateVars>>

NextRate == RateTick \/ RateCall

SpecRate == InitGateway /\ [][NextRate]_vars

(***************************************************************************)
(* checkRateLimit as it runs: the read and the write are separate steps,   *)
(* and several executions are in progress at once (SpecRace)               *)
(***************************************************************************)
\* mutant: the count of the stored entry is taken over even when the entry has
\* expired
rateReadKeepsCount(store, key, t) ==
    IF CacheHit(store[key], t)
    THEN [count |-> store[key].count, windowStart |-> store[key].windowStart]
    ELSE [count |-> store[key].count, windowStart |-> t]

\* let data = {count: 0, windowStart: Date.now()}, then cache.match and
\* cached.json(): what the execution holds when it goes on, at time t
rateRead(store, key, t) ==
    IF CacheHit(store[key], t)
    THEN [count |-> store[key].count, windowStart |-> store[key].windowStart]
    ELSE [count |-> 0, windowStart |-> t]

\* mutant: the entry that is written keeps the larger of the stored count and
\* the incremented one
PutEntryMerged(old, new) == [new EXCEPT !.count = Max(old.count, new.count)]

\* cache.put(cacheKey, ...): the entry replaces whatever is stored
PutEntry(old, new) == new

\* from const now = Date.now() to the return, on the window data read earlier:
\* the reset of an old window, the increment, the entry written and the result
rateWrite(data, action, t) ==
    LET windowMs == RateWindow(action) * 1000
        fresh == IF t - data.windowStart > windowMs
                 THEN [count |-> 0, windowStart |-> t] ELSE data
        count == fresh.count + 1
        resetAt == fresh.windowStart + windowMs
        ttlSeconds == Max(1, CeilSeconds(resetAt - t))
    IN  [entry |-> [present |-> TRUE, count |-> count, windowStart |-> fresh.windowStart,
                    expires |-> t + ttlSeconds * 1000],
         allowed |-> WithinLimit(count, action),
         remaining |-> Max(0, RateMax(action) - count),
         resetAt |-> resetAt]

\* the window of a client that has MaxAdmitted requests left in the current minute
WarmWindow(action) ==
    [present |-> TRUE, count |-> RateMax(action) - MaxAdmitted, windowStart |-> 0,
     expires |-> RateWindow(action) * 1000]

RaceIp == "198.51.100.7"
RaceTimes == {0, 60000, 60001}

\* the calls started so far
RaceStarted == Len(log) + Cardinality({p \in 1..NumProcs : procs[p].pc # "idle"})

\* an execution starts and reads the window of its key; the executions are
\* alike, so the new one takes the first free place
RaceRead ==
    /\ RaceStarted < MaxRaceCalls
    /\ \E p \in 1..NumProcs, a \in SequencedActions :
        /\ procs[p].pc = "idle"
        /\ \A q \in 1..(p - 1) : procs[q].pc # "idle"
        /\ LET data == rateRead(rl, <<a, RaceIp>>, msec)
           IN  procs' = [procs EXCEPT ![p] = [pc |-> "read", action |-> a,
                                              count |-> data.count,
                                              windowStart |-> data.windowStart]]
    /\ UNCHANGED <<now, codecVars, gatewayVars, rateVars, jar, ratingsVars, timer, log,
                   pageVars>>

\* an execution goes on after its awaits: it decides on what it has read,
\* writes its entry and returns
RaceWrite ==
    /\ \E p \in 1..NumProcs :
        /\ procs[p].pc = "read"
        /\ LET a == procs[p].action
               key == <<a, RaceIp>>
               r == rateWrite([count |-> procs[p].count,
                               windowStart |-> procs[p].windowStart], a, msec)
           IN  /\ rl' = [rl EXCEPT ![key] = PutEntry(rl[key], r.entry)]
               /\ log' = Append(log, [action |-> a, at |-> msec, read |-> procs[p].count,
                                      count |-> r.entry.count,
                                      windowStart |-> r.entry.windowStart,
                                      allowed |-> r.allowed])
        /\ procs' = [procs EXCEPT ![p] = NoProc]
    /\ UNCHANGED <<now, codecVars, req, pc, session, authCalls, resp, trace, rateVars, jar,
                   ratingsVars, timer, pageVars>>

\* a client that has MaxAdmitted logins left in the minute that started at 0
InitRace ==
    /\ InitIdle
    /\ rl = [NoWindows EXCEPT ![<<"PAID_LOGIN", RaceIp>>] = WarmWindow("PAID_LOGIN")]

RaceTick ==
    /\ \E t \in RaceTimes : t > msec /\ msec' = t
    /\ UNCHANGED <<now, codecVars, gatewayVars, rated, jar, ratingsVars, lateVars>>

NextRace == RaceTick \/ RaceRead \/ RaceWrite

SpecRace == InitRace /\ [][NextRace]_vars

(***************************************************************************)
(* Ratings: handleRatings, handleGetRatings, handlePostRating              *)
(***************************************************************************)
\* resource-id texts of the ratings requests: "", "0", "1", "2", "-", "a", and
\* "1a", which parseInt reads as 1; in the query string also "01"
RatingIdTexts == SeqsUpTo(IdAlphabet, 1) \cup {<<49, 97>>}
RatingParamTexts == RatingIdTexts \cup {<<48, 49>>}

\* body.rating as JSON wrote it, with the text String(body.rating) parseInt reads:
\* the numbers 0, 1, 6 and 4.5, the string "5", and no rating at all
RatingValues ==
    {[kind |-> "number", text |-> t] : t \in {<<48>>, <<49>>, <<54>>, <<52, 46, 53>>}}
    \cup {[kind |-> "string", text |-> <<53>>], NoRating}

\* the bodies of POST /api/ratings: objects with courseId, rating and possibly an
\* ip field of the client's own, one of exactly MAX_BODY_SIZE characters and one
\* of one more, text that is not JSON, JSON null and a JSON scalar
RatingBody(size, c, r, i) ==
    [NoBody EXCEPT !.form = "object", !.size = size, !.courseId = c, !.rating = r, !.ip = i]

RatingBodies ==
    {RatingBody(32, c, r, "") : c \in RatingIdTexts, r \in RatingValues}
    \cup {RatingBody(32, <<49>>, r, "203.0.113.9") : r \in RatingValues}
    \cup {RatingBody(MAX_BODY_SIZE, <<49>>, [kind |-> "number", text |-> <<53>>], ""),
          RatingBody(MAX_BODY_SIZE + 1, <<49>>, [kind |-> "number", text |-> <<53>>], "")}
    \cup {[NoBody EXCEPT !.form = f, !.size = 8] : f \in {"notjson", "null", "scalar"}}

RatingsRequests ==
    {[NoRequest EXCEPT !.route = "ratings", !.method = m, !.origin = o, !.contentType = t,
                       !.ip = i, !.courseIdParam = q] :
        m \in {"GET", "POST", "PUT", "OPTIONS"}, o \in {"none", "allowed", "other"},
        t \in {"json", "other"}, i \in LoginIps,
        q \in {NoParam} \cup {[present |-> TRUE, text |-> c] : c \in RatingParamTexts}}

\* the rate-limit action of a ratings request
RatingsAction(r) == IF r.method = "POST" THEN "POST_RATINGS" ELSE "GET_RATINGS"

\* handleRequest and handleRatings: the CORS preflight, the origin check and the
\* dispatch on the method, up to the await of checkRateLimit
RatingsRequest ==
    /\ pc = "idle"
    /\ CodecIdle
    /\ Cardinality(tasks) <= MaxPending
    /\ \E r \in RatingsRequests :
        /\ rl[<<RatingsAction(r), ClientIp(r)>>].count
              < RateMax(RatingsAction(r)) + MaxOverLimit
        /\ r.method # "POST" => r.contentType = "other"    \* no body, no Content-Type
        /\ r.method # "GET" => r.courseIdParam = NoParam   \* the query is read by GET
        /\ req' = r
        /\ IF r.method = "OPTIONS"
           THEN resp' = [NoResponse EXCEPT !.status = 204, !.kind = "preflight", !.cors = TRUE]
                /\ pc' = "done"
           ELSE IF ~isOriginAllowed(r)
           THEN resp' = jsonResponse(403, "Origin not allowed", FALSE) /\ pc' = "done"
           ELSE IF r.method = "GET" THEN resp' = NoResponse /\ pc' = "rate-get"
           ELSE IF r.method = "POST" THEN resp' = NoResponse /\ pc' = "rate-post"
           ELSE resp' = jsonResponse(405, "Method not allowed", TRUE) /\ pc' = "done"
    /\ session' = Invalid
    /\ authCalls' = <<>>
    /\ trace' = NoTrace
    /\ UNCHANGED <<now, codecVars, rl, extVars>>

\* mutant: the canonical-form comparison is left out
NotCanonicalNever(text) == FALSE

\* String(courseId) !== courseIdParam, after parseInt
NotCanonical(text) == StringOf(parseInt(text).val) # text

\* handleGetRatings after the rate limit: what the courseId parameter is answered
\* with; status 0 means that it is a resource id
GetValidate(q) ==
    IF ~q.present \/ q.text = <<>> THEN jsonResponse(400, "Missing courseId", TRUE)
    ELSE IF InvalidId(parseInt(q.text)) \/ NotCanonical(q.text)
    THEN jsonResponse(400, "Invalid courseId", TRUE)
    ELSE NoResponse

\* const rateCheck = await checkRateLimit(ip, 'GET_RATINGS' or 'POST_RATINGS'),
\* then the courseId parameter (GET) or the Content-Type (POST)
RatingsRateLimit ==
    /\ pc \in {"rate-get", "rate-post"}
    /\ LET rateCheck == checkRateLimit(ClientIp(req), RatingsAction(req), now * 1000, rl)
           answer == IF ~rateCheck.allowed THEN jsonResponse(429, "Too many requests.", TRUE)
                     ELSE IF pc = "rate-get" THEN GetValidate(req.courseIdParam)
                     ELSE IF req.contentType # "json"
                     THEN jsonResponse(400, "Content-Type must be application/json", TRUE)
                     ELSE NoResponse
       IN  /\ rl' = rateCheck.store
           /\ trace' = [trace EXCEPT !.rateChecked = TRUE, !.rateAllowed = rateCheck.allowed]
           /\ resp' = answer
           /\ pc' = IF answer.status # 0 THEN "done"
                    ELSE IF pc = "rate-get" THEN "cache" ELSE "rating-body"
    /\ UNCHANGED <<now, codecVars, req, session, authCalls, extVars>>

\* the resource of the ratings request being handled
RatingsCourseId ==
    IF req.method = "GET" THEN parseInt(req.courseIdParam.text).val
    ELSE parseInt(req.body.courseId).val

\* what the authority can answer getRatings and addRating with
GetReplies == FailedReplies \cup {"null", "data"}
PostReplies == FailedReplies \cup {"null", "error", "success"}

RatingsPayload(c) == [status |-> "ratings", version |-> backend[c]]
NullPayload == [status |-> "null", version |-> 0]

\* the 502 of a failed authority call: !res.ok, or the catch
BackendFailure(reply) ==
    IF reply = "non2xx" THEN jsonResponse(502, "Backend error", TRUE)
    ELSE jsonResponse(502, "Backend unavailable", TRUE)

\* const cached = await cache.match(cacheKey): a hit is returned, a miss sends
\* the getRatings call
RatingsCacheMatch ==
    /\ pc = "cache"
    /\ LET courseId == RatingsCourseId
           hit == CacheHit(cache[courseId], now)
       IN  /\ trace' = [trace EXCEPT !.cacheRead = TRUE, !.cacheHit = hit]
           /\ IF hit
              THEN /\ resp' = [jsonResponse(200, "data", TRUE)
                                  EXCEPT !.payload = cache[courseId].payload]
                   /\ authCalls' = authCalls
                   /\ pc' = "done"
              ELSE /\ resp' = resp
                   /\ authCalls' = <<[NoCall EXCEPT !.action = "getRatings",
                                                    !.courseId = StringOf(courseId),
                                                    !.reply = "pending"]>>
                   /\ pc' = "fetch-get"
           /\ invalidated' = invalidated \ {courseId}
    /\ UNCHANGED <<now, codecVars, req, session, rl, rateVars, jar, lateVars, cache, tasks, backend>>

\* the getRatings call ends: 502, or the payload is returned and
\* ctx.waitUntil(cache.put(...)) is left to settle
RatingsGetReply ==
    /\ pc = "fetch-get"
    /\ \E reply \in GetReplies :
        LET courseId == RatingsCourseId
            data == IF reply = "null" THEN NullPayload ELSE RatingsPayload(courseId)
        IN  /\ authCalls' = [authCalls EXCEPT ![1].reply = reply]
            /\ IF reply \in FailedReplies
               THEN /\ resp' = BackendFailure(reply)
                    /\ tasks' = tasks
                    /\ trace' = trace
               ELSE /\ resp' = [jsonResponse(200, "data", TRUE) EXCEPT !.payload = data]
                    /\ tasks' = tasks \cup {[op |-> "put", course |-> courseId, payload |-> data]}
                    /\ trace' = [trace EXCEPT !.puts = @ \cup {courseId}]
    /\ pc' = "done"
    /\ UNCHANGED <<now, codecVars, req, session, rl, rateVars, jar, lateVars, cache, backend, invalidated>>

\* mutant: an ip field of the body is preferred to the connection's
RatingIpFromBody(r, b) == IF b.ip # "" THEN b.ip ELSE ClientIp(r)

\* the ip sent with addRating: request.headers.get('CF-Connecting-IP') || 'unknown'
RatingIp(r, b) == ClientIp(r)

\* what handlePostRating answers to the body b before the authority call; status
\* 0 means that every check passed. A null body makes body.courseId throw outside
\* the try block: the entry point answers 500.
PostValidate(b) ==
    LET rating == parseInt(b.rating.text)
    IN  IF b.size > MAX_BODY_SIZE THEN jsonResponse(400, "Request too large", TRUE)
        ELSE IF b.form = "notjson" THEN jsonResponse(400, "Invalid JSON", TRUE)
        ELSE IF b.form = "null" THEN InternalError
        ELSE IF InvalidId(BodyCourseId(b)) THEN jsonResponse(400, "Invalid courseId", TRUE)
        ELSE IF rating.isNaN \/ rating.val < 1 \/ rating.val > 5
        THEN jsonResponse(400, "Rating must be 1-5", TRUE)
        ELSE NoResponse

\* const raw = await request.text(), the parse and the validation, then the
\* addRating call is sent with the ip of the connection
RatingsReadBody ==
    /\ pc = "rating-body"
    /\ \E b \in RatingBodies :
        LET answer == PostValidate(b)
        IN  /\ req' = [req EXCEPT !.body = b]
            /\ trace' = [trace EXCEPT !.bodyRead = TRUE]
            /\ IF answer.status # 0
               THEN /\ resp' = answer
                    /\ authCalls' = authCalls
                    /\ pc' = "done"
               ELSE /\ resp' = resp
                    /\ authCalls' = <<[NoCall EXCEPT !.action = "addRating",
                                                     !.courseId = StringOf(BodyCourseId(b).val),
                                                     !.rating = parseInt(b.rating.text).val,
                                                     !.ip = RatingIp(req, b),
                                                     !.reply = "pending"]>>
                    /\ pc' = "fetch-post"
    /\ UNCHANGED <<now, codecVars, session, rl, extVars>>

\* if (data.status === 'success'): the resources whose cache key is deleted
Busted(reply, courseId) == IF reply = "success" THEN {courseId} ELSE {}

\* the addRating call ends: 502, 500 when the body is JSON null (data.status
\* throws), or the authority's answer is returned and, on success,
\* ctx.waitUntil(cache.delete(cacheKey)) is left to settle
RatingsPostReply ==
    /\ pc = "fetch-post"
    /\ \E reply \in PostReplies :
        LET courseId == RatingsCourseId
            busted == IF reply \in FailedReplies \cup {"null"} THEN {}
                      ELSE Busted(reply, courseId)
        IN  /\ authCalls' = [authCalls EXCEPT ![1].reply = reply]
            /\ backend' = IF reply = "success"
                          THEN [backend EXCEPT ![courseId] = @ + 1] ELSE backend
            /\ resp' = IF reply \in FailedReplies THEN BackendFailure(reply)
                       ELSE IF reply = "null" THEN InternalError
                       ELSE [jsonResponse(200, "data", TRUE)
                                EXCEPT !.payload = [status |-> reply, version |-> 0]]
            /\ tasks' = tasks \cup {[op |-> "delete", course |-> c, payload |-> NoPayload] :
                                       c \in busted}
            /\ trace' = [trace EXCEPT !.deletes = @ \cup busted]
    /\ pc' = "done"
    /\ UNCHANGED <<now, codecVars, req, session, rl, rateVars, jar, lateVars, cache, invalidated>>

\* a ctx.waitUntil promise settles: the cache.put stores the payload for
\* RATINGS_CACHE_TTL seconds, the cache.delete removes the entry
SettleTask ==
    \E task \in tasks :
        /\ tasks' = tasks \ {task}
        /\ cache' = [cache EXCEPT ![task.course] =
                        IF task.op = "put"
                        THEN [present |-> TRUE, payload |-> task.payload,
                              expires |-> now + RATINGS_CACHE_TTL]
                        ELSE NoEntry]
        /\ invalidated' = IF task.op = "delete" THEN invalidated \cup {task.course}
                          ELSE invalidated
        /\ UNCHANGED <<now, codecVars, gatewayVars, rateVars, jar, lateVars, backend>>

\* the ratings cache the edge holds when the run starts: empty, or an entry of
\* resource 1 that an earlier GET stored, still within its max-age or just past it
StoredEntry(expires) ==
    [present |-> TRUE, payload |-> [status |-> "ratings", version |-> 0], expires |-> expires]

WarmCaches ==
    {NoRatingsCache} \cup
    {[NoRatingsCache EXCEPT ![1] = StoredEntry(e)] : e \in {0, RATINGS_CACHE_TTL}}

InitRatings ==
    /\ InitRun
    /\ InitRest
    /\ cache \in WarmCaches
    /\ rl = [k \in RlKeys |->
                IF k[1] \in {"GET_RATINGS", "POST_RATINGS"} /\ k[2] \in LoginIps
                THEN WarmWindow(k[1]) ELSE NoWindow]

NextRatings ==
    \/ RatingsRequest \/ RatingsRateLimit \/ RatingsCacheMatch \/ RatingsGetReply
    \/ RatingsReadBody \/ RatingsPostReply \/ SettleTask \/ Deliver

SpecRatings == InitRatings /\ [][NextRatings]_vars

(***************************************************************************)
(* fetchWithTimeout: the authority call of the gate and of the login, with *)
(* its timer, the arrival of the response headers and the read of the body *)
(***************************************************************************)
\* what the handler answers once its call has ended in reply
CallAnswer(reply) ==
    IF authCalls[1].action = "getDriveUrl"
    THEN IF getDriveUrl(reply) = "" THEN buildErrorPage(503)
         ELSE [NoResponse EXCEPT !.status = 302, !.location = getDriveUrl(reply)]
    ELSE LoginAnswer(req.body, reply, now)

\* the bodies res.json() can read once the headers said ok
BodyReplies(action) ==
    (IF action = "getDriveUrl" THEN DriveReplies ELSE VerifyReplies)
        \ {"neterror", "timeout", "non2xx"}

\* the call is over for the handler, which answers
CallEnds(reply, t) ==
    /\ authCalls' = [authCalls EXCEPT ![1].reply = reply]
    /\ resp' = CallAnswer(reply)
    /\ pc' = "done"
    /\ timer' = t
    /\ UNCHANGED <<now, codecVars, req, session, trace, rl, rateVars, jar, ratingsVars,
                   raceVars, pageVars>>

\* fetchWithTimeout starts: setTimeout(() => controller.abort(), ms), then fetch
CallSend ==
    /\ pc \in {"drive", "verify"}
    /\ pc' = "fetch"
    /\ timer' = "armed"
    /\ msec' = 0
    /\ UNCHANGED <<now, codecVars, req, session, authCalls, resp, trace, rl, rated, jar,
                   ratingsVars, raceVars, pageVars>>

\* time passes while the handler awaits fetch or res.json()
Elapse ==
    /\ pc \in {"fetch", "json"}
    /\ msec < WaitSteps * (DEADLINE_MS \div 2)
    /\ msec' = msec + DEADLINE_MS \div 2
    /\ UNCHANGED <<now, codecVars, gatewayVars, rated, jar, ratingsVars, lateVars>>

\* the timer fires: controller.abort() rejects the pending fetch, the finally
\* clause runs and the catch of the caller answers
TimerFires ==
    /\ pc = "fetch"
    /\ timer = "armed"
    /\ msec >= DEADLINE_MS
    /\ CallEnds("timeout", "fired")

\* the fetch rejects by itself: finally { clearTimeout(timer) }, then the catch
FetchFails ==
    /\ pc = "fetch"
    /\ CallEnds("neterror", "cleared")

\* the response headers arrive: fetch resolves, finally { clearTimeout(timer) };
\* a status that is not ok is answered at once, otherwise res.json() is awaited
HeadersArrive ==
    /\ pc = "fetch"
    /\ \/ CallEnds("non2xx", "cleared")
       \/ /\ pc' = "json"
          /\ timer' = "cleared"
          /\ UNCHANGED <<now, codecVars, req, session, authCalls, resp, trace, rl, rateVars,
                         jar, ratingsVars, raceVars, pageVars>>

\* the body has arrived and res.json() settles
BodyArrives ==
    /\ pc = "json"
    /\ \E reply \in BodyReplies(authCalls[1].action) : CallEnds(reply, timer)

NextTimeout ==
    \/ SessionLogin \/ LoginRateLimit \/ SessionReadBody \/ SessionGate \/ GateParse
    \/ CallSend \/ Elapse \/ TimerFires \/ FetchFails \/ HeadersArrive \/ BodyArrives
    \/ Receive

\* the runtime lets time pass and fires a timer that is due; nothing makes the
\* authority send its headers or its body
SpecTimeout ==
    InitGateway /\ [][NextTimeout]_vars /\ WF_vars(Elapse) /\ WF_vars(TimerFires)

NextCodec == Tick \/ CallCreate \/ CallParseMinted \/ CallParse \/ CallVerify \/ CodecReturn

SpecCodec == InitCodec /\ [][NextCodec]_vars

(***************************************************************************)
(* The browser's RatingSystem: _fetchWithRetry, fetchRatings, submitRating *)
(* and the _cache of the page (SpecRetry)                                  *)
(***************************************************************************)
\* a RatingSystem call: the fetches its _fetchWithRetry chain has sent (the
\* attempt in progress is number sent - 1), how the last one stands ("pending"
\* or the way it ended), where the chain stands, and how the promise returned
\* to the caller settled; rating is String(ratingValue) of a submitRating call
NoClientCall == [op |-> "none", rating |-> <<>>, maxRetries |-> 0, sent |-> 0, last |-> "none",
                 phase |-> "done", settled |-> "pending", result |-> "none"]

\* the ways fetch() rejects or the first then throws: the network, the abort of
\* the timer, a status that is not ok
FlightFailures == {"neterror", "timeout", "non2xx"}

\* the ways response.json() rejects: the body is not JSON
BodyFailures == {"badjson"}

\* what response.json() resolves to: for a GET the ratings object, an object
\* without the two fields, or null; for a POST an object with status success,
\* one with another status, or null
ClientBodies(op) ==
    IF op = "fetchRatings" THEN {"ratings", "empty", "null"} ELSE {"success", "error", "null"}

\* String(ratingValue) of the values submitRating is called with: 0, 1, 5, 6, "a"
ClientRatingTexts == {<<48>>, <<49>>, <<53>>, <<54>>, <<97>>}

\* Date.now() of the page: the start, the age at which a cache entry is still
\* served, and one millisecond later
ClientTimes == {0, CLIENT_CACHE_TTL, CLIENT_CACHE_TTL + 1}

\* mutant: one more attempt is allowed
MoreAttemptsLoose(attempt, maxRetries) == attempt < maxRetries

\* if (attempt < maxRetries - 1): the catch schedules another attempt
MoreAttempts(attempt, maxRetries) == attempt < maxRetries - 1

\* _getCached(courseId) at time t: the data served (none: null) and the map
\* afterwards, an entry older than CACHE_TTL being deleted
_getCached(entry, t) ==
    IF ~entry.present THEN [data |-> "none", cache |-> entry]
    ELSE IF t - entry.timestamp > CLIENT_CACHE_TTL
    THEN [data |-> "none", cache |-> NoClientEntry]
    ELSE [data |-> entry.data, cache |-> entry]

\* _setCache(courseId, data)
_setCache(data, t) == [present |-> TRUE, timestamp |-> t, data |-> data]

\* _fetchWithRetry(url, options, 0, maxRetries) has been called: the first
\* fetch is sent
FirstAttempt(op, rating, maxRetries) ==
    [NoClientCall EXCEPT !.op = op, !.rating = rating, !.maxRetries = maxRetries,
                         !.sent = 1, !.last = "pending", !.phase = "flight"]

\* a call that returns a resolved promise without any fetch
Resolved(op, rating, result) ==
    [NoClientCall EXCEPT !.op = op, !.rating = rating, !.settled = "resolved",
                         !.result = result]

\* fetchRatings(courseId) at time t: the cached data, or a GET with the
\* default number of attempts
fetchRatings(c, t) ==
    LET cached == _getCached(c.cache, t)
    IN  [calls |-> Append(c.calls,
                     IF cached.data # "none"
                     THEN Resolved("fetchRatings", <<>>, cached.data)
                     ELSE FirstAttempt("fetchRatings", <<>>, MAX_RETRIES)),
         cache |-> cached.cache]

\* submitRating(courseId, ratingValue): the validation of parseInt(ratingValue),
\* then a POST with maxRetries = 1
submitRating(c, text) ==
    LET ratingValue == parseInt(text)
    IN  [c EXCEPT !.calls = Append(c.calls,
            IF ratingValue.isNaN \/ ratingValue.val < MIN_RATING
                                 \/ ratingValue.val > MAX_RATING
            THEN Resolved("submitRating", text, "invalid")
            ELSE FirstAttempt("submitRating", text, 1))]

\* the then of fetchRatings on the data of the response (data.average of null
\* throws, which its catch turns into the error result) and the then of
\* submitRating (data.status of null throws likewise): the result the promise
\* resolves to and what becomes of the page's cache
ThenOf(op, data, entry, t) ==
    IF data = "null" THEN [result |-> "failed", cache |-> entry]
    ELSE IF op = "fetchRatings"
    THEN LET result == IF data = "empty" THEN "zero" ELSE "ratings"
         IN  [result |-> result, cache |-> _setCache(result, t)]
    ELSE [result |-> data, cache |-> IF data = "success" THEN NoClientEntry ELSE entry]

\* the last attempt of call k ends as `how`
AttemptEnds(k, how) == [k EXCEPT !.last = how]

ClientFrame ==
    UNCHANGED <<now, codecVars, gatewayVars, rated, jar, ratingsVars, timer, raceVars>>

\* time passes on the page
ClientTick ==
    /\ \E t \in ClientTimes : t > msec /\ msec' = t
    /\ UNCHANGED <<client, widget>>
    /\ ClientFrame

\* some script of the page calls RatingSystem.fetchRatings
RatingsApiFetch ==
    /\ Len(client.calls) < MaxClientCalls
    /\ client' = fetchRatings(client, msec)
    /\ UNCHANGED <<msec, widget>>
    /\ ClientFrame

\* some script of the page calls RatingSystem.submitRating with any value
RatingsApiSubmit ==
    /\ Len(client.calls) < MaxClientCalls
    /\ \E text \in ClientRatingTexts : client' = submitRating(client, text)
    /\ UNCHANGED <<msec, widget>>
    /\ ClientFrame

\* the attempt in progress fails: fetch rejects, the timer aborts it, the status
\* is not ok, or the body is not JSON. The catch of _fetchWithRetry either
\* schedules the next attempt or rejects, and the catch of the caller turns the
\* rejection into its error result
AttemptFails ==
    /\ \E i \in 1..Len(client.calls) :
        LET k == client.calls[i]
        IN  /\ k.phase \in {"flight", "body"}
            /\ \E how \in (IF k.phase = "flight" THEN FlightFailures ELSE BodyFailures) :
                client' = [client EXCEPT !.calls[i] =
                    IF MoreAttempts(k.sent - 1, k.maxRetries)
                    THEN [AttemptEnds(k, how) EXCEPT !.phase = "delay"]
                    ELSE [AttemptEnds(k, how) EXCEPT !.phase = "done",
                                                     !.settled = "resolved",
                                                     !.result = "failed"]]
    /\ UNCHANGED <<msec, widget>>
    /\ ClientFrame

\* setTimeout(..., delay) of the catch fires: _fetchWithRetry(attempt + 1)
RetryFires ==
    /\ \E i \in 1..Len(client.calls) :
        /\ client.calls[i].phase = "delay"
        /\ client' = [client EXCEPT !.calls[i].sent = @ + 1,
                                    !.calls[i].last = "pending",
                                    !.calls[i].phase = "flight"]
    /\ UNCHANGED <<msec, widget>>
    /\ ClientFrame

\* the response arrives with an ok status: clearTimeout, then response.json()
ResponseOk ==
    /\ \E i \in 1..Len(client.calls) :
        /\ client.calls[i].phase = "flight"
        /\ client' = [client EXCEPT !.calls[i].phase = "body"]
    /\ UNCHANGED <<msec, widget>>
    /\ ClientFrame

\* response.json() resolves: _fetchWithRetry resolves and the then of the caller
\* runs
BodyParsed ==
    /\ \E i \in 1..Len(client.calls) :
        LET k == client.calls[i]
        IN  /\ k.phase = "body"
            /\ \E data \in ClientBodies(k.op) :
                LET r == ThenOf(k.op, data, client.cache, msec)
                IN  client' = [calls |-> [client.calls EXCEPT ![i] =
                                   [AttemptEnds(k, "ok") EXCEPT !.phase = "done",
                                                                !.settled = "resolved",
                                                                !.result = r.result]],
                               cache |-> r.cache]
    /\ UNCHANGED <<msec, widget>>
    /\ ClientFrame

NextRetry ==
    \/ ClientTick \/ RatingsApiFetch \/ RatingsApiSubmit
    \/ AttemptFails \/ RetryFires \/ ResponseOk \/ BodyParsed

SpecRetry == InitGateway /\ [][NextRetry]_vars

(***************************************************************************)
(* The rating card of the course page: initializeStarEvents, disableStars  *)
(* and _handleRatingSubmit (SpecWidget)                                    *)
(***************************************************************************)
\* the stars of the card, by their data-value
Stars == MIN_RATING..MAX_RATING

\* the stars the pointer enters and the stars it clicks
HoveredStars == {3}
ClickedStars == {1, MAX_RATING}

\* the keys pressed on the focused star; ArrowUp is handled as ArrowRight,
\* ArrowDown as ArrowLeft and ' ' as Enter
StarKeys == {"ArrowRight", "ArrowLeft", "Enter", "a"}

\* mutant: the stars are left as they are
disableStarsNot(w) == w

\* disableStars(container): the class stars-disabled, and every button disabled
disableStars(w) == [w EXCEPT !.disabled = TRUE]

\* container.classList.contains('stars-disabled'), the first line of every
\* listener
StarsDisabled == widget.disabled

WidgetFrame ==
    UNCHANGED <<now, codecVars, gatewayVars, rateVars, jar, ratingsVars, timer, raceVars>>

\* mouseenter on a star: highlightUpTo(value)
StarEnter ==
    /\ \E v \in HoveredStars :
        widget' = IF StarsDisabled THEN widget ELSE [widget EXCEPT !.highlight = v]
    /\ UNCHANGED client
    /\ WidgetFrame

\* mouseleave: resetHighlight() shows the selected value again
StarLeave ==
    /\ widget' = IF StarsDisabled THEN widget
                 ELSE [widget EXCEPT !.highlight = widget.selected]
    /\ UNCHANGED client
    /\ WidgetFrame

\* the click listener on the star v: the selection, then the callback
\* _handleRatingSubmit(course.id, v), which shows the status, disables the stars
\* and calls RS.submitRating
ClickOn(v) ==
    IF StarsDisabled
    THEN UNCHANGED <<client, widget>>
    ELSE /\ client' = submitRating(client, StringOf(v))
         /\ widget' = [disableStars(widget) EXCEPT
                          !.selected = v, !.highlight = v,
                          !.waiting = @ \cup {Len(client.calls) + 1},
                          !.submitted = @ + 1,
                          !.status = "Submitting your rating..."]

\* the pointer clicks a star
StarClick ==
    /\ widget.submitted < MaxClientCalls
    /\ \E v \in ClickedStars : ClickOn(v)
    /\ WidgetFrame

\* keydown on the container while a star has the focus: the arrows move the
\* focus and the highlight, Enter clicks the focused star
StarKey ==
    /\ widget.submitted < MaxClientCalls
    /\ \E key \in StarKeys :
        IF StarsDisabled \/ key = "a"
        THEN UNCHANGED <<client, widget>>
        ELSE IF key = "Enter" THEN ClickOn(widget.focus)
        ELSE LET newIdx == IF key = "ArrowRight"
                           THEN (IF widget.focus + 1 <= MAX_RATING
                                 THEN widget.focus + 1 ELSE MAX_RATING)
                           ELSE Max(widget.focus - 1, MIN_RATING)
             IN  /\ widget' = [widget EXCEPT !.focus = newIdx, !.highlight = newIdx]
                 /\ UNCHANGED client
    /\ WidgetFrame

\* the promise of RS.submitRating has settled and the then (or the catch) of
\* _handleRatingSubmit runs: on success the thanks and _loadAndDisplayRatings,
\* otherwise the message and the stars enabled again
RatingHandled ==
    /\ \E i \in widget.waiting :
        LET k == client.calls[i]
        IN  /\ k.settled # "pending"
            /\ IF k.settled = "resolved" /\ k.result = "success"
               THEN /\ widget' = [widget EXCEPT !.waiting = @ \ {i},
                                                !.status = "Thank you for your rating!"]
                    /\ client' = fetchRatings(client, msec)
               ELSE /\ widget' = [widget EXCEPT !.waiting = @ \ {i},
                                                !.disabled = FALSE,
                                                !.status = "Failed to submit"]
                    /\ UNCHANGED client
    /\ WidgetFrame

\* how the fetchRatings call of buildPage's _loadAndDisplayRatings(course.id)
\* can have ended: with the ratings, now cached, or with the error result
LoadedPages ==
    {[calls |-> <<[FirstAttempt("fetchRatings", <<>>, MAX_RETRIES) EXCEPT
                      !.last = "ok", !.phase = "done", !.settled = "resolved",
                      !.result = "ratings"]>>,
      cache |-> _setCache("ratings", 0)],
     [calls |-> <<[FirstAttempt("fetchRatings", <<>>, MAX_RETRIES) EXCEPT
                      !.sent = MAX_RETRIES, !.last = "timeout", !.phase = "done",
                      !.settled = "resolved", !.result = "failed"]>>,
      cache |-> NoClientEntry]}

\* buildPage has built the card and its first fetchRatings call has been answered
InitWidget ==
    /\ InitRun
    /\ rl = NoWindows
    /\ cache = NoRatingsCache
    /\ msec = 0 /\ rated = NoRated /\ jar = <<>> /\ tasks = {} /\ backend = NoRatings
    /\ invalidated = {} /\ timer = "none"
    /\ procs = [p \in 1..NumProcs |-> NoProc] /\ log = <<>>
    /\ client \in LoadedPages
    /\ widget = NoWidget

NextWidget ==
    \/ StarEnter \/ StarLeave \/ StarClick \/ StarKey \/ RatingHandled
    \/ AttemptFails \/ RetryFires \/ ResponseOk \/ BodyParsed

SpecWidget == InitWidget /\ [][NextWidget]_vars

(***************************************************************************)
(* Properties of the signer and the codec (SpecCodec)                      *)
(***************************************************************************)

\* C3: token round trip. Every claim (resourceId >= 1, lower-cased non-empty
\* subject, issuedAt) can be minted, and parsing the minted token with the same
\* secret at any time before expiresAt returns the same resourceId, subject,
\* issuedAt and expiresAt; parsing it with another secret returns invalid.
C3_RoundTrip ==
    /\ minted.done => ~minted.threw
    /\ (minted.done /\ parsed.done /\ parsed.value = minted.value) =>
          /\ (parsed.secret = minted.secret /\ parsed.at < minted.at + PAID_COOKIE_MAX_AGE) =>
                /\ parsed.result.valid
                /\ SessionCourse(parsed.result.data) = StringOf(minted.courseId)
                /\ parsed.result.data.email = minted.email
                /\ parsed.result.data.iat = minted.at
                /\ parsed.result.data.exp = minted.at + PAID_COOKIE_MAX_AGE
          /\ (parsed.secret # minted.secret => ~parsed.result.valid)

\* The round trip of C3 for the subjects btoa accepts (Latin-1): it holds.
RoundTripLatin1 ==
    /\ minted.done => (minted.threw <=> ~IsLatin1(minted.email))
    /\ (minted.done /\ parsed.done /\ parsed.value = minted.value) =>
          /\ (parsed.secret = minted.secret /\ parsed.at < minted.at + PAID_COOKIE_MAX_AGE) =>
                /\ parsed.result.valid
                /\ SessionCourse(parsed.result.data) = StringOf(minted.courseId)
                /\ parsed.result.data.email = minted.email
                /\ parsed.result.data.iat = minted.at
                /\ parsed.result.data.exp = minted.at + PAID_COOKIE_MAX_AGE
          /\ (parsed.secret # minted.secret => ~parsed.result.valid)

\* C4: token expiry. A correctly signed token is invalid at every time
\* now >= expiresAt, the instant now = expiresAt included.
C4_ExpiredAtExpiry ==
    (minted.done /\ parsed.done /\ parsed.value = minted.value
        /\ parsed.secret = minted.secret
        /\ parsed.at >= minted.at + PAID_COOKIE_MAX_AGE)
    => ~parsed.result.valid

\* What the code does: a minted token is invalid strictly after expiresAt, and is
\* still accepted at the instant now = expiresAt.
ExpiredAfterExpiry ==
    (minted.done /\ parsed.done /\ parsed.value = minted.value /\ parsed.secret = minted.secret)
    => (parsed.result.valid <=> parsed.at <= minted.at + PAID_COOKIE_MAX_AGE)

\* C5: signer correctness. verifySignature(p, g, s) is true exactly when
\* g = signPayload(p, s); a signature of another length is refused without a
\* comparison, and for one of the right length the loop inspects every position.
C5_SignerCorrect ==
    verified.done =>
        /\ verified.ok <=> (verified.signature = signPayload(verified.payload, verified.secret))
        /\ IF Len(verified.signature) = 2 * DigestBytes
           THEN verified.steps = 2 * DigestBytes
           ELSE ~verified.ok /\ verified.steps = 0

\* a signature of the right length that differs from the right one in its last
\* character only, and is refused
C5_Witness ==
    /\ verified.done
    /\ ~verified.ok
    /\ Len(verified.signature) = 2 * DigestBytes
    /\ LET expected == signPayload(verified.payload, verified.secret)
       IN  /\ verified.signature[2 * DigestBytes] # expected[2 * DigestBytes]
           /\ \A i \in 1..(2 * DigestBytes - 1) : verified.signature[i] = expected[i]

(***************************************************************************)
(* Properties of the paid course gate (SpecGate)                           *)
(***************************************************************************)
\* the cookie the gate reads for the requested resource
GateCookie == getCookie(req.cookies, paidCookieName(GateCourseId(req).val))

\* v is a token createPaidCookie mints for resource a
MintedFor(v, a) ==
    /\ v.form = "dotted"
    /\ v.encoded.kind = "claim"
    /\ v.encoded.email \in TokenEmails
    /\ v.encoded.iat \in Times
    /\ v = createPaidCookie(a, v.encoded.email, COOKIE_SECRET, v.encoded.iat).value

\* C1: a token minted for resource A, presented (under any cookie name) to the
\* gate for another resource B, never yields a 302 and never an authority call;
\* the response is the login page of B.
C1_NoCrossResourceAccess ==
    (req.route = "gate" /\ ~InvalidId(GateCourseId(req))) =>
        \A a \in 1..MaxCourseId :
            (/\ a # GateCourseId(req).val
             /\ req.cookies # <<>>
             /\ \A i \in 1..Len(req.cookies) : MintedFor(req.cookies[i].value, a))
            => /\ resp.status # 302
               /\ authCalls = <<>>
               /\ (pc = "done" => resp = buildPaidLoginPage(GateCourseId(req).val))

\* the gate for B has answered a request whose cookie, named for B, holds an
\* unexpired token minted for another resource, whose signature verified
C1_Witness ==
    /\ req.route = "gate" /\ pc = "done"
    /\ ~InvalidId(GateCourseId(req))
    /\ Len(req.cookies) = 1
    /\ req.cookies[1].name = paidCookieName(GateCourseId(req).val)
    /\ \E a \in 1..MaxCourseId :
          a # GateCourseId(req).val /\ MintedFor(req.cookies[1].value, a)
    /\ now < req.cookies[1].value.encoded.exp
    /\ session.valid
    /\ resp = buildPaidLoginPage(GateCourseId(req).val)

\* C2: the gate for R answers 302 only if the request carried R's cookie, whose
\* token is signed with the signing secret, is a claim, is unexpired
\* (now < expiresAt) and names R, and the authority returned a location in this
\* request; with no cookie or a token that does not parse the answer is the 200
\* login page and no authority call is made.
C2_RedirectOnlyIfValid ==
    (req.route = "gate" /\ pc = "done") =>
        /\ resp.status = 302 =>
              /\ ~InvalidId(GateCourseId(req))
              /\ GateCookie.form = "dotted"
              /\ GateCookie.signature = signPayload(GateCookie.encoded, COOKIE_SECRET)
              /\ GateCookie.encoded.kind = "claim"
              /\ now < GateCookie.encoded.exp
              /\ GateCookie.encoded.courseId = StringOf(GateCourseId(req).val)
              /\ Len(authCalls) = 1
              /\ authCalls[1].action = "getDriveUrl"
              /\ authCalls[1].reply = "url"
              /\ resp.location = DriveUrl
        /\ (/\ ~InvalidId(GateCourseId(req))
            /\ \/ ~Truthy(GateCookie)
               \/ GateCookie.form = "nodot"
               \/ GateCookie.signature # signPayload(GateCookie.encoded, COOKIE_SECRET)
               \/ DecodeThrows(GateCookie.encoded))
           => /\ resp = buildPaidLoginPage(GateCourseId(req).val)
              /\ authCalls = <<>>

\* C2 with "unexpired" read as the code reads it (now <= expiresAt): it holds.
RedirectOnlyIfAccepted ==
    (req.route = "gate" /\ pc = "done" /\ resp.status = 302) =>
        /\ ~InvalidId(GateCourseId(req))
        /\ GateCookie.form = "dotted"
        /\ GateCookie.signature = signPayload(GateCookie.encoded, COOKIE_SECRET)
        /\ GateCookie.encoded.kind = "claim"
        /\ now <= GateCookie.encoded.exp
        /\ GateCookie.encoded.courseId = StringOf(GateCourseId(req).val)
        /\ Len(authCalls) = 1
        /\ authCalls[1].action = "getDriveUrl"
        /\ authCalls[1].reply = "url"
        /\ resp.location = DriveUrl

\* C6: an invalid token is indistinguishable from an absent one. For a token
\* with no separator, a signature that does not verify, a payload that is not
\* claim JSON or an expired claim (now >= expiresAt) parsePaidCookie returns
\* invalid, and the gate answers such a token, or a token for another resource,
\* exactly as it answers a request without a cookie, with no authority call.
C6_InvalidAsAbsent ==
    (req.route = "gate" /\ ~InvalidId(GateCourseId(req)) /\ Truthy(GateCookie)) =>
        LET unparsable ==
                \/ GateCookie.form = "nodot"
                \/ GateCookie.signature # signPayload(GateCookie.encoded, COOKIE_SECRET)
                \/ GateCookie.encoded.kind # "claim"
                \/ now >= GateCookie.encoded.exp
            otherResource == GateCookie.encoded.courseId # StringOf(GateCourseId(req).val)
        IN  /\ (unparsable /\ trace.parseCalls > 0) => ~session.valid
            /\ ((unparsable \/ otherResource) /\ pc = "done") =>
                  /\ resp = buildPaidLoginPage(GateCourseId(req).val)
                  /\ authCalls = <<>>

\* a resource-id text that is a positive integer: digits only, value at least 1
IsPositiveIntegerText(s) ==
    /\ s # <<>>
    /\ \A i \in 1..Len(s) : s[i] \in Digits
    /\ parseInt(s).val >= 1

\* C7: a gate request whose resource-id segment is not a positive integer
\* (missing, zero, negative, non-numeric, digits followed by other characters)
\* is answered 404, and no cookie is read, no token parsed, no authority called.
C7_BadIdIs404 ==
    (req.route = "gate" /\ pc = "done" /\ ~IsPositiveIntegerText(req.segment)) =>
        /\ resp.status = 404
        /\ ~trace.cookieRead
        /\ trace.parseCalls = 0
        /\ authCalls = <<>>

\* What the code does: 404 exactly when parseInt finds no number >= 1.
BadIdIs404ByParseInt ==
    (req.route = "gate") =>
        IF InvalidId(GateCourseId(req))
        THEN resp.status = 404 /\ ~trace.cookieRead /\ trace.parseCalls = 0 /\ authCalls = <<>>
        ELSE resp.status # 404 /\ trace.cookieRead

\* C8: with a valid token for R, when the authority call fails or returns no
\* location string the response is the 503 error page (never 302, never the
\* login page).
C8_AuthorityFailureIs503 ==
    (/\ req.route = "gate" /\ pc = "done"
     /\ ~InvalidId(GateCourseId(req))
     /\ GateCookie.form = "dotted"
     /\ GateCookie.signature = signPayload(GateCookie.encoded, COOKIE_SECRET)
     /\ GateCookie.encoded.kind = "claim"
     /\ now < GateCookie.encoded.exp
     /\ GateCookie.encoded.courseId = StringOf(GateCourseId(req).val))
    => /\ Len(authCalls) = 1
       /\ authCalls[1].reply # "pending"
       /\ authCalls[1].reply # "url" => resp = buildErrorPage(503)

\* a valid token was presented and the authority call timed out
C8_Witness ==
    /\ req.route = "gate" /\ pc = "done"
    /\ session.valid
    /\ Len(authCalls) = 1
    /\ authCalls[1].reply = "timeout"
    /\ resp.status = 503

(***************************************************************************)
(* Properties of the login handler (SpecLogin)                             *)
(***************************************************************************)
LoginRun == req.route = "login" /\ req.method # "OPTIONS"

\* the nine checks in the documented order: the number of the first one the
\* request fails, 0 when it passes them all. The rate-limit check fails when
\* the limiter denied the request; the body checks are decided by the body the
\* request carries (a body that is not an object has no e-mail).
FirstFailing ==
    LET b == req.body
    IN  IF req.origin \notin {"none", "allowed"} THEN 1
        ELSE IF req.method # "POST" THEN 2
        ELSE IF req.contentType # "json" THEN 3
        ELSE IF trace.rateChecked /\ ~trace.rateAllowed THEN 4
        ELSE IF b.size > MAX_BODY_SIZE THEN 5
        ELSE IF b.form = "notjson" THEN 6
        ELSE IF ~(b.form = "object" /\ b.emailIsString /\ EmailShape(ToLowerCase(Trim(b.email))))
        THEN 7
        ELSE IF ~(b.passwordLen >= 4 /\ b.passwordLen <= 128) THEN 8
        ELSE IF InvalidId(parseInt(b.courseId)) THEN 9
        ELSE 0

RejectStatus(k) == IF k = 1 THEN 403 ELSE IF k = 2 THEN 405 ELSE IF k = 4 THEN 429 ELSE 400

RejectMessage(k) ==
    CASE k = 1 -> "Origin not allowed"
      [] k = 2 -> "Method not allowed"
      [] k = 3 -> "Content-Type must be application/json"
      [] k = 4 -> "Too many attempts. Please wait a moment."
      [] k = 5 -> "Request too large"
      [] k = 6 -> "Invalid JSON"
      [] k = 7 -> "Valid email address is required"
      [] k = 8 -> "Invalid credentials"
      [] k = 9 -> "Invalid course"

\* the observable effects of the checks happen in the documented order
ChecksInOrder ==
    /\ trace.rateChecked => (req.origin \in {"none", "allowed"} /\ req.method = "POST"
                             /\ req.contentType = "json")
    /\ trace.bodyRead => (trace.rateChecked /\ trace.rateAllowed)
    /\ authCalls # <<>> => trace.bodyRead

\* C9: login validation order. The checks run in the order origin, method,
\* content type, rate limit, body size, body parses, e-mail shape, secret
\* length 4..128, resource id; the first failing check determines the
\* response, and the verifyAccess call is made only when all nine passed.
C9_ValidationOrder ==
    LoginRun =>
        /\ ChecksInOrder
        /\ (pc = "done" /\ FirstFailing # 0) =>
              /\ resp.status = RejectStatus(FirstFailing)
              /\ resp.kind = RejectMessage(FirstFailing)
        /\ authCalls # <<>> =>
              /\ pc \in {"verify", "done"}
              /\ FirstFailing = 0
              /\ authCalls[1].action = "verifyAccess"

\* What the code does: the order holds for every body except the JSON value
\* null, which is answered 500 by the entry point.
ValidationOrderExceptNull ==
    LoginRun =>
        /\ ChecksInOrder
        /\ (pc = "done" /\ FirstFailing # 0) =>
              IF FirstFailing = 7 /\ req.body.form = "null"
              THEN resp = InternalError
              ELSE resp.status = RejectStatus(FirstFailing)
                   /\ resp.kind = RejectMessage(FirstFailing)
        /\ authCalls # <<>> => (pc \in {"verify", "done"} /\ FirstFailing = 0)

\* the authority answered this request's verifyAccess call with a true valid
AuthorityValid ==
    /\ Len(authCalls) = 1
    /\ authCalls[1].action = "verifyAccess"
    /\ authCalls[1].reply \in {"true", "truthy"}

\* C10: a login response carries Set-Cookie if and only if the authority
\* answered this request's verifyAccess call with valid = true; when the
\* authority reports invalid the response is the 401 with the one generic
\* message and no cookie.
C10_CookieIffValid ==
    (LoginRun /\ pc = "done") =>
        /\ (resp.setCookie # NoCookie) <=> AuthorityValid
        /\ (Len(authCalls) = 1 /\ authCalls[1].reply = "false") =>
              resp = jsonResponse(401,
                  "Invalid email or password, or you are not enrolled in this course.", TRUE)

\* What the code does: a cookie is set only if the authority reported valid,
\* and it is set whenever it did and the e-mail has Latin-1 characters only.
CookieIffValidLatin1 ==
    (LoginRun /\ pc = "done") =>
        /\ (resp.setCookie # NoCookie) => AuthorityValid
        /\ (AuthorityValid /\ IsLatin1(authCalls[1].email)) =>
              (resp.status = 200 /\ resp.setCookie # NoCookie)
        /\ (AuthorityValid /\ ~IsLatin1(authCalls[1].email)) => resp = InternalError
        /\ (Len(authCalls) = 1 /\ authCalls[1].reply = "false") =>
              resp = jsonResponse(401,
                  "Invalid email or password, or you are not enrolled in this course.", TRUE)

\* the 502 answers of the login handler
VerificationErrors ==
    {jsonResponse(502, "Verification service error", TRUE),
     jsonResponse(502, "Verification service unavailable", TRUE)}

\* C11: login never conflates an authority failure with bad credentials. When
\* the verifyAccess call fails (network error, timeout, non-success status) or its
\* response is malformed (unparseable, JSON null, JSON without the valid field),
\* the response is the 502 verification-service error, never 401 and never 500.
C11_AuthorityFailureIs502 ==
    (/\ LoginRun /\ pc = "done"
     /\ Len(authCalls) = 1
     /\ authCalls[1].reply \in FailedReplies \cup {"null", "nofield"})
    => resp \in VerificationErrors

\* What the code does: 502 for a failed call or an unparseable body, 500 for
\* JSON null, 401 for JSON without the valid field.
AuthorityFailureByReply ==
    (LoginRun /\ pc = "done" /\ Len(authCalls) = 1) =>
        /\ authCalls[1].reply \in FailedReplies => resp \in VerificationErrors
        /\ authCalls[1].reply = "null" => resp = InternalError
        /\ authCalls[1].reply = "nofield" => resp.status = 401

(***************************************************************************)
(* Properties of a login followed by the gate (SpecSession)                *)
(***************************************************************************)
\* the resource id and the identity of the login request being handled
LoginCourseId == parseInt(req.body.courseId).val
LoginIdentity == ToLowerCase(Trim(req.body.email))

\* the response is the 200 of a successful login for this request: the redirect
\* to the resource, and a cookie named and scoped for it, with Max-Age of 30
\* days, whose token is signed and carries the resource id, the identity, the
\* time of issue and that time plus 30 days
LoginSucceeded ==
    /\ resp.status = 200
    /\ resp.kind = "success"
    /\ resp.redirect = StringOf(LoginCourseId)
    /\ resp.setCookie.name = paidCookieName(LoginCourseId)
    /\ resp.setCookie.path = StringOf(LoginCourseId)
    /\ resp.setCookie.maxAge = 30 * 24 * 60 * 60
    /\ LET token == resp.setCookie.value
       IN  /\ token.form = "dotted"
           /\ token.signature = signPayload(token.encoded, COOKIE_SECRET)
           /\ token.encoded.kind = "claim"
           /\ LoginCourseId >= 1
           /\ token.encoded.courseId = StringOf(LoginCourseId)
           /\ token.encoded.email = LoginIdentity
           /\ LoginIdentity # <<>>
           /\ token.encoded.iat = now
           /\ token.encoded.exp = now + 30 * 24 * 60 * 60

\* the gate request carries the jar's cookie, which is that of the requested
\* resource and has not expired
GateWithJarCookie ==
    /\ req.route = "gate"
    /\ jar # <<>>
    /\ req.cookies = jar
    /\ jar[1].name = paidCookieName(GateCourseId(req).val)
    /\ now < jar[1].value.encoded.exp

\* C12: login success end to end. When all checks pass and the authority
\* reports valid, the response is 200 with the redirect to the resource and the
\* cookie for it (resource id >= 1, lower-cased identity, expiresAt = issuedAt +
\* 30 days, Max-Age of that lifetime); a later gate request for that resource
\* with that cookie, before expiry and with the authority resolving a location,
\* is answered 302 to that location.
C12_LoginThenGate ==
    /\ (LoginRun /\ pc = "done" /\ FirstFailing = 0 /\ AuthorityValid) => LoginSucceeded
    /\ (GateWithJarCookie /\ pc = "done") =>
          /\ Len(authCalls) = 1
          /\ authCalls[1].reply = "url" => (resp.status = 302 /\ resp.location = DriveUrl)

\* What the code does: the same, for identities btoa accepts (Latin-1); for any
\* other identity the login is answered 500 and no cookie is set.
LoginThenGateLatin1 ==
    /\ (LoginRun /\ pc = "done" /\ FirstFailing = 0 /\ AuthorityValid) =>
          IF IsLatin1(LoginIdentity) THEN LoginSucceeded ELSE resp = InternalError
    /\ (GateWithJarCookie /\ pc = "done") =>
          /\ Len(authCalls) = 1
          /\ authCalls[1].reply = "url" => (resp.status = 302 /\ resp.location = DriveUrl)

\* a client logged in, and its later gate request was answered 302
LoginThenGateReached ==
    /\ GateWithJarCookie /\ pc = "done"
    /\ now > jar[1].value.encoded.iat
    /\ resp.status = 302

(***************************************************************************)
(* Properties of the rate limiter (SpecRate)                               *)
(***************************************************************************)
\* every call so far fell inside the window the first call opened
AllInFirstWindow ==
    \A i \in 1..Len(rated.times) :
        rated.times[i] < rated.times[1] + RateWindow(rated.action) * 1000

\* C13: admission bound. From a key with no stored window, in a sequence of calls
\* that all fall inside one window, the i-th call is allowed for every i <= max
\* and refused for i = max + 1 and every later call.
C13_AdmissionBound ==
    (rated.done /\ AllInFirstWindow) =>
        (rated.allowed <=> Len(rated.times) <= RateMax(rated.action))

\* the call after the last allowed one, at the last instant of the window, refused
C13_Witness ==
    /\ rated.done /\ AllInFirstWindow
    /\ Len(rated.times) = RateMax(rated.action) + 1
    /\ rated.at = rated.times[1] + RateWindow(rated.action) * 1000 - 1
    /\ ~rated.allowed

\* the last call found a stored window and kept it: same start, count one higher
KeptWindow ==
    /\ rated.before.present
    /\ rl[RateKey].windowStart = rated.before.windowStart
    /\ rl[RateKey].count = rated.before.count + 1

\* the last call opened a new window at its own time
FreshWindow ==
    /\ rl[RateKey].windowStart = rated.at
    /\ rl[RateKey].count = 1
    /\ rated.allowed

\* C14: window reset. The stored count is incremented only by checks at times in
\* [windowStart, windowStart + windowLength); a check at a time >= windowStart +
\* windowLength, the boundary included, opens a new window (windowStart = now,
\* count = 1) and is allowed.
C14_WindowReset ==
    (rated.done /\ rated.before.present) =>
        LET boundary == rated.before.windowStart + RateWindow(rated.action) * 1000
        IN  IF rated.at >= boundary THEN FreshWindow ELSE KeptWindow

\* What the code does: the window is kept up to and including the boundary
\* instant while the entry is still cached (now - windowStart > windowMs is
\* false there), and a new one is opened after it or once the entry has expired.
WindowResetAfterBoundary ==
    (rated.done /\ rated.before.present) =>
        LET boundary == rated.before.windowStart + RateWindow(rated.action) * 1000
        IN  IF rated.at > boundary \/ ~CacheHit(rated.before, rated.at)
            THEN FreshWindow
            ELSE KeptWindow /\ rated.at <= boundary

(***************************************************************************)
(* Properties of the ratings handlers (SpecRatings)                        *)
(***************************************************************************)

\* the entry of the requested resource is stored and younger than its max-age
FreshEntry == cache[RatingsCourseId].present /\ now < cache[RatingsCourseId].expires

\* what the authority's read answer carries for the requested resource
ReadPayload(reply) ==
    IF reply = "null" THEN NullPayload
    ELSE [status |-> "ratings", version |-> backend[RatingsCourseId]]

\* C15: ratings read path. Once the rate limit and the id validation have passed,
\* the cache lookup of a fresh entry answers 200 with the cached payload and no
\* authority call is made in the request; a lookup that misses sends exactly one
\* getRatings call for the resource, and the answer of that call is returned
\* with status 200 (502 when the call fails and yields no payload).
C15_ReadPath ==
    [][/\ (pc = "cache" /\ pc' # "cache") =>
            IF FreshEntry
            THEN /\ pc' = "done"
                 /\ resp'.status = 200
                 /\ resp'.payload = cache[RatingsCourseId].payload
                 /\ authCalls' = <<>>
            ELSE /\ pc' = "fetch-get"
                 /\ Len(authCalls') = 1
                 /\ authCalls'[1].action = "getRatings"
                 /\ authCalls'[1].courseId = StringOf(RatingsCourseId)
       /\ (pc = "fetch-get" /\ pc' # "fetch-get") =>
            /\ pc' = "done"
            /\ Len(authCalls') = 1
            /\ authCalls'[1].action = "getRatings"
            /\ IF authCalls'[1].reply \in FailedReplies
               THEN resp'.status = 502
               ELSE resp'.status = 200 /\ resp'.payload = ReadPayload(authCalls'[1].reply)
      ]_vars

\* a read answered from the cache, and a read answered by the authority
C15_Witness ==
    /\ pc = "done" /\ req.route = "ratings" /\ req.method = "GET"
    /\ trace.rateAllowed /\ trace.cacheRead /\ trace.cacheHit
    /\ resp.status = 200 /\ resp.payload.status = "ratings" /\ authCalls = <<>>

ReadMissAnswered ==
    /\ pc = "done" /\ req.route = "ratings" /\ req.method = "GET"
    /\ trace.cacheRead /\ ~trace.cacheHit
    /\ Len(authCalls) = 1 /\ authCalls[1].reply = "data" /\ resp.status = 200

\* a resource-id text in canonical integer form: digits, no leading zero, >= 1
IsCanonicalIdText(s) == IsPositiveIntegerText(s) /\ s[1] # 48

\* a ratings read from an allowed origin whose courseId is missing or is not a
\* canonical positive integer
InvalidIdRead ==
    /\ req.route = "ratings" /\ req.method = "GET" /\ isOriginAllowed(req)
    /\ (~req.courseIdParam.present \/ ~IsCanonicalIdText(req.courseIdParam.text))

\* C16: a ratings read with an invalid resource id (missing, 0, negative,
\* non-numeric, not canonical) is answered 400 and in that execution there is no
\* cache read, no cache write and no authority call in any key namespace, the
\* rate-limit window entries included.
C16_InvalidIdTouchesNothing ==
    InvalidIdRead =>
        /\ ~trace.rateChecked /\ ~trace.cacheRead
        /\ trace.puts = {} /\ trace.deletes = {} /\ authCalls = <<>>
        /\ pc = "done" => resp.status = 400

\* What the code does: the rate-limit check runs first and reads and rewrites
\* the client's GET_RATINGS window; then the invalid id is answered 400 (429 if
\* the window is exhausted), with no ratings-cache read or write and no
\* authority call.
InvalidIdAfterRateLimit ==
    InvalidIdRead =>
        /\ ~trace.cacheRead /\ trace.puts = {} /\ trace.deletes = {} /\ authCalls = <<>>
        /\ pc \in {"rate-get", "done"}
        /\ pc = "done" =>
              /\ trace.rateChecked
              /\ resp.status = IF trace.rateAllowed THEN 400 ELSE 429
              /\ rl[<<"GET_RATINGS", ClientIp(req)>>].count > RateMax("GET_RATINGS") - MaxAdmitted

\* the read of courseId=01 has been answered 400 after its rate-limit check
InvalidIdAnswered ==
    /\ InvalidIdRead /\ pc = "done" /\ req.courseIdParam.text = <<48, 49>>
    /\ trace.rateChecked /\ resp.status = 400 /\ resp.kind = "Invalid courseId"

\* body.rating is a JSON number that is one of the integers 1..5
IsIntegerRating(r) == r.kind = "number" /\ r.text \in {<<49>>, <<50>>, <<51>>, <<52>>, <<53>>}

\* a ratings write whose JSON object body has been read and is within the size limit
WriteValidated ==
    /\ req.route = "ratings" /\ req.method = "POST" /\ trace.bodyRead
    /\ req.body.form = "object" /\ req.body.size <= MAX_BODY_SIZE

\* C17: ratings write validation. A write whose rating is not an integer in
\* [1,5] (6, 0, 4.5, a non-number) or whose resource id is not a positive
\* integer is answered 400 and no authority call is made.
C17_WriteValidation ==
    (WriteValidated /\ (~IsIntegerRating(req.body.rating)
                          \/ ~IsPositiveIntegerText(req.body.courseId))) =>
        /\ authCalls = <<>>
        /\ pc = "done" => resp.status = 400

\* What the code guarantees: every addRating call carries an integer rating in
\* [1,5] and a resource id >= 1, both as parseInt read them from the body.
AddRatingCarriesParsed ==
    \A i \in 1..Len(authCalls) :
        authCalls[i].action = "addRating" =>
            /\ authCalls[i].rating \in 1..5
            /\ parseInt(authCalls[i].courseId).val >= 1
            /\ authCalls[i].rating = parseInt(req.body.rating.text).val
            /\ authCalls[i].courseId = StringOf(parseInt(req.body.courseId).val)

\* the rating 4.5 has been sent to the authority as 4
FractionalRatingSent ==
    /\ WriteValidated /\ req.body.rating = [kind |-> "number", text |-> <<52, 46, 53>>]
    /\ Len(authCalls) = 1 /\ authCalls[1].action = "addRating" /\ authCalls[1].rating = 4

\* the delete tasks a step has added
NewDeletes == {t.course : t \in {u \in tasks' \ tasks : u.op = "delete"}}

\* C18 (first part): the answer of an addRating call leaves a delete of the
\* ratings cache key of the written resource, and of no other key, when the
\* authority reported status success, and no delete otherwise; a delete that
\* settles removes the entry of its resource and leaves the other entries alone.
BustOnSuccessOnly ==
    [][/\ (pc = "fetch-post" /\ pc' # "fetch-post") =>
            NewDeletes = IF authCalls'[1].reply = "success" THEN {RatingsCourseId} ELSE {}
       /\ pc # "fetch-post" => NewDeletes = {}
       /\ \A t \in tasks \ tasks' :
            /\ t.op = "delete" => ~cache'[t.course].present
            /\ \A c \in RatingCourses \ {t.course} : cache'[c] = cache[c]
      ]_vars

\* C18: write invalidates the read cache. A success of the authority leaves a
\* delete of R's key only, anything else leaves none, and once the delete has
\* been applied the next read for R observes a miss although max-age has not
\* elapsed: from the delete to that read R has no stored entry.
C18_NextReadMisses ==
    \A c \in invalidated : ~CacheHit(cache[c], now)

\* a put left by an earlier read has settled after the delete
PutAfterDelete ==
    \E c \in invalidated : cache[c].present /\ cache[c].payload.version < backend[c]

\* the addRating call that the connection identity, the resource id and the
\* rating of a write determine
AddRatingOf(ip, courseIdText, ratingText) ==
    [NoCall EXCEPT !.action = "addRating",
                   !.courseId = StringOf(parseInt(courseIdText).val),
                   !.rating = parseInt(ratingText).val,
                   !.ip = IF ip = "none" THEN "unknown" ELSE ip]

\* C19: the client identity sent with a rating is the connection's
\* (CF-Connecting-IP, or 'unknown'). The addRating call of a write is a function
\* of the connection identity, body.courseId and body.rating alone, so two
\* writes from one connection whose bodies differ in any other field (an ip
\* field of the client's own, the length) produce identical calls.
C19_IdentityFromConnection ==
    \A i \in 1..Len(authCalls) :
        authCalls[i].action = "addRating" =>
            [authCalls[i] EXCEPT !.reply = ""] =
                AddRatingOf(req.ip, req.body.courseId, req.body.rating.text)

\* a write whose body carries an ip of its own has been sent to the authority
\* with the ip of the connection
C19_Witness ==
    /\ pc = "fetch-post" /\ req.body.ip = "203.0.113.9"
    /\ Len(authCalls) = 1 /\ authCalls[1].action = "addRating"
    /\ authCalls[1].ip = "198.51.100.7" /\ req.ip = "198.51.100.7"

(***************************************************************************)
(* Properties of the router (SpecGate)                                     *)
(***************************************************************************)

\* the routes the specification lists: OPTIONS under the API prefix, GET on the
\* gate path, POST on the login path, GET or POST on the ratings path
ListedRoute(r) ==
    \/ r.method = "OPTIONS" /\ r.route \in {"login", "ratings", "api-other"}
    \/ r.route = "gate" /\ r.method = "GET"
    \/ r.route = "login" /\ r.method = "POST"
    \/ r.route = "ratings" /\ r.method \in {"GET", "POST"}

\* the request was handed to the origin and nothing of the gateway was used
PassedThrough ==
    /\ pc = "done" => resp = OriginResponse
    /\ ~trace.cookieRead /\ trace.parseCalls = 0 /\ ~trace.rateChecked
    /\ ~trace.cacheRead /\ authCalls = <<>>

\* C20: router pass-through. A request that is not one of the listed routes is
\* forwarded to the origin and the gateway reads no cookie, touches no cache
\* entry and makes no authority call for it; in particular a non-GET request on
\* the gate path is passed through.
C20_PassThrough ==
    (req.route # "none" /\ ~ListedRoute(req)) => PassedThrough

\* What the code does: the pass-through is decided by the path alone.
PassThroughByPath ==
    /\ (req.route \in {"api-other", "site"}
            /\ ~(req.method = "OPTIONS" /\ req.route = "api-other")) => PassedThrough
    /\ (req.route = "gate" /\ pc = "done") => resp # OriginResponse

\* a POST on the gate path has been answered by the gate with a redirect
GatePostRedirected ==
    /\ req.route = "gate" /\ req.method = "POST" /\ pc = "done" /\ resp.status = 302

(***************************************************************************)
(* Error handling of the request bodies (SpecLogin, SpecRatings)           *)
(***************************************************************************)

\* a body that is oversize, not JSON, JSON that is not an object (null, a
\* scalar), or an object without the fields its handler expects
MalformedBody(r) ==
    \/ r.body.size > MAX_BODY_SIZE
    \/ r.body.form \in {"notjson", "null", "scalar"}
    \/ r.route = "login" /\ (~r.body.emailIsString \/ r.body.passwordLen < 0)
    \/ r.route = "ratings" /\ r.body.rating.kind = "absent"

\* a login or a ratings write whose body has been read: origin, method,
\* content type and rate limit have passed
BodyWasRead ==
    /\ req.route \in {"login", "ratings"} /\ req.method = "POST" /\ trace.bodyRead

\* C21: malformed input is always a 400. A login or ratings write that passed
\* the origin, method, content-type and rate-limit checks and whose body is
\* oversize, not JSON, or not an object with the expected fields (JSON null
\* included) is answered 400, never 500, and does not reach the authority.
C21_MalformedIs400 ==
    (BodyWasRead /\ MalformedBody(req)) =>
        /\ authCalls = <<>>
        /\ pc = "done" => resp.status = 400

\* What the code does: the JSON value null is answered 500 by the entry point;
\* every other malformed body is answered 400; none reaches the authority.
MalformedIs400ExceptNull ==
    (BodyWasRead /\ MalformedBody(req)) =>
        /\ authCalls = <<>>
        /\ pc = "done" =>
              IF req.body.form = "null" /\ req.body.size <= MAX_BODY_SIZE
              THEN resp = InternalError
              ELSE resp.status = 400

\* the body null has been answered 500
NullBodyIs500 ==
    /\ BodyWasRead /\ req.body.form = "null" /\ pc = "done" /\ resp.status = 500

\* the request was refused by its rate-limit check
RateRefused == trace.rateChecked /\ ~trace.rateAllowed

\* C22: every 429 of the gateway (login, ratings read, ratings write) carries a
\* retry-after hint, and a 429 is produced exactly when checkRateLimit
\* returned allowed = false for the request's (action, client) key.
C22_RetryAfterOn429 ==
    pc = "done" =>
        /\ resp.status = 429 <=> RateRefused
        /\ resp.status = 429 => resp.retryAfter >= 0

\* What the code does: a 429 is produced exactly when the check refused; the
\* login 429 carries Retry-After, the 429 of the ratings handlers does not.
RefusedIff429 ==
    pc = "done" =>
        /\ resp.status = 429 <=> RateRefused
        /\ resp.status = 429 =>
              IF req.route = "login" THEN resp.retryAfter >= 0
              ELSE resp.retryAfter = NoResponse.retryAfter

\* a ratings request has been answered 429 without a Retry-After header
RatingsRefusedWithoutHint ==
    /\ pc = "done" /\ req.route = "ratings" /\ resp.status = 429 /\ resp.retryAfter < 0

(***************************************************************************)
(* Properties of fetchWithTimeout (SpecTimeout)                            *)
(***************************************************************************)

\* the handler is waiting for the authority
CallInProgress == pc \in {"fetch", "json"}

\* C23: every authority call is covered by its deadline timer for its whole
\* duration, from sending the request until the response body has been read.
C23_TimerCoversCall == CallInProgress => timer = "armed"

\* C23 (consequence): every request that has sent its authority call is
\* eventually answered, even if the authority never finishes answering.
EveryCallAnswered == CallInProgress ~> (pc = "done")

\* What the code does: the timer covers the wait for the headers only; it is
\* cleared when fetch resolves, before res.json() reads the body.
TimerCoversFetchOnly ==
    /\ pc = "fetch" => timer = "armed"
    /\ pc = "json" => timer = "cleared"
    /\ (pc = "done" /\ authCalls # <<>> /\ timer = "fired") =>
          /\ authCalls[1].reply = "timeout"
          /\ resp.status = IF authCalls[1].action = "getDriveUrl" THEN 503 ELSE 502

\* a call whose headers have not arrived is over within the deadline
HeadersOrFailure == (pc = "fetch") ~> (pc \in {"json", "done"})

\* the body is awaited long after the deadline, with no timer left
BodyAwaitedPastDeadline ==
    /\ pc = "json" /\ timer = "cleared" /\ msec > DEADLINE_MS

(***************************************************************************)
(* Authority calls per request (SpecGate)                                  *)
(***************************************************************************)

ReadAnswered ==
    /\ pc = "done" /\ req.route = "ratings" /\ req.method = "GET"
    /\ resp.status = 200 /\ resp.payload.status = "ratings"

\* C25: read-after-write freshness. After a ratings write for R has been
\* answered with the authority's success, no read for R that starts afterwards
\* returns a payload the authority produced before that write, in every
\* interleaving of the asynchronous cache delete and cache populate. Requests
\* are handled one after the other here, so every answered read started after
\* all the writes the authority has accepted.
C25_ReadAfterWriteFresh ==
    ReadAnswered => resp.payload.version = backend[RatingsCourseId]

\* What the code guarantees: a read that missed the cache returns the
\* authority's current ratings; an older payload can only come from a cache hit.
StaleOnlyFromCache ==
    ReadAnswered => (resp.payload.version = backend[RatingsCourseId] \/ trace.cacheHit)

\* (a) a read after the write's answer and before its cache.delete has settled
\* is a hit on the payload from before the write
StaleReadBeforeDelete ==
    /\ ReadAnswered /\ trace.cacheHit
    /\ resp.payload.version < backend[RatingsCourseId]
    /\ \E t \in tasks : t.op = "delete" /\ t.course = RatingsCourseId

(***************************************************************************)
(* Properties of the interleaved rate limiter (SpecRace)                   *)
(***************************************************************************)

\* the calls on a key that the stored window at the start of the run stands for
EarlierCalls(a, w) ==
    IF a = "PAID_LOGIN" /\ w = WarmWindow(a).windowStart THEN WarmWindow(a).count ELSE 0

\* the returned calls of action a that counted themselves in the window started at w
CallsIn(a, w) == {i \in 1..Len(log) : log[i].action = a /\ log[i].windowStart = w}

AllowedIn(a, w) == {i \in CallsIn(a, w) : log[i].allowed}

\* more than max calls of one key have been allowed inside one window
OverAdmitted(a, w) == EarlierCalls(a, w) + Cardinality(AllowedIn(a, w)) > RateMax(a)

\* two returned calls read the same count of the same window
ReadSameCount(a, w) ==
    \E i, j \in CallsIn(a, w) : i < j /\ log[i].read = log[j].read

\* C26: rate-limiter race. checkRateLimit reads the window, increments what it
\* read and writes it back: every call returns read + 1 (1 after a reset) and
\* decides on that; the entry stored is the one of the execution that wrote
\* last; and more than max calls are allowed inside one window only when two
\* executions have read the same count.
C26_LastWriteWins ==
    /\ \A i \in 1..Len(log) :
          /\ log[i].count \in {1, log[i].read + 1}
          /\ log[i].allowed <=> log[i].count <= RateMax(log[i].action)
    /\ \A a \in SequencedActions :
          LET mine == {i \in 1..Len(log) : log[i].action = a}
              last == CHOOSE i \in mine : \A j \in mine : j <= i
          IN  mine # {} =>
                /\ rl[<<a, RaceIp>>].count = log[last].count
                /\ rl[<<a, RaceIp>>].windowStart = log[last].windowStart
    /\ \A a \in SequencedActions, w \in RaceTimes :
          OverAdmitted(a, w) => ReadSameCount(a, w)

\* both executions read the same count, the later write overwrote the earlier,
\* the stored count is one short and more than max logins were allowed in the
\* window that started at 0
C26_Witness ==
    /\ OverAdmitted("PAID_LOGIN", 0)
    /\ ReadSameCount("PAID_LOGIN", 0)
    /\ rl[<<"PAID_LOGIN", RaceIp>>].count
          < EarlierCalls("PAID_LOGIN", 0) + Cardinality(CallsIn("PAID_LOGIN", 0))

\* the returned calls of action a made at times inside the window started at w,
\* among the first n returns
CallsWithin(a, w, n) ==
    {i \in 1..n : /\ log[i].action = a
                  /\ log[i].at >= w
                  /\ log[i].at <= w + RateWindow(a) * 1000}

\* the stored count of every window is covered by the calls made inside it
CountCovered ==
    \A a \in SequencedActions :
        LET e == rl[<<a, RaceIp>>]
        IN  e.present =>
              e.count <= EarlierCalls(a, e.windowStart)
                           + Cardinality(CallsWithin(a, e.windowStart, Len(log)))

\* a refused call is at least the (max + 1)-th call made inside its window
DeniedOnlyOverMax ==
    \A i \in 1..Len(log) :
        ~log[i].allowed =>
            EarlierCalls(log[i].action, log[i].windowStart)
              + Cardinality(CallsWithin(log[i].action, log[i].windowStart, i))
                > RateMax(log[i].action)

\* a step changes the window of at most the key of the execution that returns
\* in it, and no ratings cache entry
OneKeyWritten ==
    /\ cache' = cache
    /\ \A k \in DOMAIN rl :
          rl'[k] # rl[k] =>
              \E p \in 1..NumProcs :
                  /\ procs[p].pc = "read" /\ procs'[p] = NoProc
                  /\ k = <<procs[p].action, RaceIp>>

\* C28: no false denial under any interleaving of checkRateLimit executions.
\* The stored count of a window never exceeds the number of calls made on its
\* key at times inside [windowStart, windowStart + window length]; a call is
\* refused only when more than max calls were made on its key inside that
\* window; and a call changes the window of its own key only, never that of
\* another key and never a ratings cache entry.
C28_NoFalseDenial ==
    /\ [](CountCovered /\ DeniedOnlyOverMax)
    /\ [][OneKeyWritten]_vars

\* a login was refused in the window that started at 0, a rating call of the
\* same client has returned, and both windows are stored
C28_Witness ==
    /\ \E i \in 1..Len(log) : log[i].action = "PAID_LOGIN" /\ ~log[i].allowed
    /\ \E i \in 1..Len(log) : log[i].action = "POST_RATINGS"
    /\ rl[<<"PAID_LOGIN", RaceIp>>].present
    /\ rl[<<"POST_RATINGS", RaceIp>>].present

(***************************************************************************)
(* Which login requests use up the login budget (SpecLogin)                *)
(***************************************************************************)

\* the request is a POST with a JSON content type and no foreign origin
PassedChecks(r) == r.origin \in {"none", "allowed"} /\ r.method = "POST" /\ r.contentType = "json"

\* the answers given before the rate limiter is consulted
EarlyRefusal ==
    \/ resp.status \in {403, 405}
    \/ resp.status = 400 /\ resp.kind = "Content-Type must be application/json"

\* once a login request is past its checks, it has been counted exactly when it
\* passed them; an early refusal is never counted, and a request without an
\* Origin header is never refused for its origin
CountedIffPassed ==
    LoginRun /\ pc \in {"body", "verify", "done"} =>
        /\ trace.rateChecked <=> PassedChecks(req)
        /\ EarlyRefusal => ~trace.rateChecked
        /\ req.origin = "none" => resp.status # 403

\* the rate-limit state changes only in the step that counts a request past its
\* checks: the window of that client's login key goes up by one, or starts
\* again at one, and every other window is left alone
CountedOnce ==
    LET key == <<"PAID_LOGIN", ClientIp(req)>>
    IN  IF pc = "ratelimit" /\ pc' # "ratelimit"
        THEN /\ PassedChecks(req)
             /\ rl'[key].count \in {rl[key].count + 1, 1}
             /\ rl'[key] # rl[key]
             /\ \A k \in DOMAIN rl : k # key => rl'[k] = rl[k]
        ELSE rl' = rl

\* C29: the login counter of a client goes up by one for exactly the login
\* requests that passed the origin, method and content-type checks, whatever
\* their later fate; a request answered 403, 405 or the content-type 400
\* leaves all rate-limit state as it was; a request without an Origin header
\* counts as having an allowed origin.
C29_BudgetConsumption ==
    /\ []CountedIffPassed
    /\ [][CountedOnce]_vars

\* a request without an Origin header was counted and then refused for its body
C29_Witness ==
    /\ LoginRun /\ pc = "done"
    /\ req.origin = "none"
    /\ trace.rateChecked /\ trace.bodyRead
    /\ resp.status = 400
    /\ rl[<<"PAID_LOGIN", ClientIp(req)>>].count >= 1

(***************************************************************************)
(* Retry discipline of the page's RatingSystem (SpecRetry)                 *)
(***************************************************************************)

ClientCalls == {client.calls[i] : i \in 1..Len(client.calls)}

\* parseInt(ratingValue, 10) is one of 1..5
ValidClientRating(text) ==
    ~parseInt(text).isNaN /\ parseInt(text).val \in MIN_RATING..MAX_RATING

\* what holds of every call whatever made an attempt fail: at most maxRetries
\* fetches, one POST at most, three GETs at most, a promise that resolves, and
\* no error result in the page's cache
RetryBounds ==
    /\ \A k \in ClientCalls :
          /\ k.sent <= k.maxRetries
          /\ k.op = "submitRating" => k.sent <= 1
          /\ k.op = "fetchRatings" => k.sent <= 3
          /\ k.settled # "rejected"
          /\ k.phase = "done" <=> k.settled = "resolved"
    /\ client.cache.present => client.cache.data # "failed"

\* a call sends another fetch only when its last one ended in one of `causes`,
\* and none once a fetch has succeeded
RetriesOnlyAfter(causes) ==
    \A i \in 1..Len(client.calls) :
        LET k == client.calls[i]
        IN  /\ client'.calls[i].sent \in {k.sent, k.sent + 1}
            /\ client'.calls[i].sent = k.sent + 1 => k.last \in causes
            /\ k.last = "ok" => client'.calls[i] = k

\* C27: client retry discipline. _fetchWithRetry makes at most maxRetries
\* attempts, starts attempt k+1 only after attempt k failed by a network error,
\* a timeout or a non-ok status, and stops at the first success; submitRating
\* sends its POST exactly once and never retries it; fetchRatings sends at most
\* 3 GETs; both promises always resolve; a failed fetchRatings result is never
\* stored in the page's cache.
C27_RetryDiscipline ==
    /\ [](RetryBounds
          /\ \A k \in ClientCalls :
                (k.op = "submitRating" /\ k.settled = "resolved") => k.sent = 1)
    /\ [][RetriesOnlyAfter(FlightFailures)]_vars

\* C27 as the code has it: an attempt also fails, and is retried, when the
\* response has an ok status and a body that is not JSON; and submitRating sends
\* its POST once when parseInt(ratingValue) is one of 1..5 and sends nothing
\* otherwise. The rest as stated.
RetryDisciplineOfCode ==
    /\ [](RetryBounds
          /\ \A k \in ClientCalls :
                k.op = "submitRating" =>
                    k.sent = IF ValidClientRating(k.rating) THEN 1 ELSE 0)
    /\ [][RetriesOnlyAfter(FlightFailures \cup BodyFailures)]_vars

\* fetchRatings has sent its third GET after an ok response whose body was not
\* JSON, has resolved to the error result, and the page's cache is empty
RetriedAfterBadBody ==
    \E k \in ClientCalls :
        /\ k.op = "fetchRatings" /\ k.sent = 3 /\ k.last = "badjson"
        /\ k.settled = "resolved" /\ k.result = "failed"
        /\ ~client.cache.present

\* submitRating was called with 6 and resolved without any POST
InvalidRatingNotSent ==
    \E k \in ClientCalls :
        /\ k.op = "submitRating" /\ k.rating = <<54>>
        /\ k.settled = "resolved" /\ k.sent = 0

\* both cases in one page: the third GET after a body that was not JSON, and a
\* submitRating call that sent nothing
C27_Witness == RetriedAfterBadBody /\ InvalidRatingNotSent

(***************************************************************************)
(* The rating card: one submission at a time (SpecWidget)                  *)
(***************************************************************************)

\* the submitRating calls whose promise has not settled
SubmissionsInFlight ==
    {i \in 1..Len(client.calls) :
        client.calls[i].op = "submitRating" /\ client.calls[i].settled = "pending"}

\* a submission thanked for: the stars are not given back
Thanked == widget.status = "Thank you for your rating!"

\* at most one submission is in flight or awaits its handler, and the stars are
\* disabled for as long as it does and after a success
OneAtATime ==
    /\ Cardinality(SubmissionsInFlight) <= 1
    /\ Cardinality(widget.waiting) <= 1
    /\ SubmissionsInFlight \subseteq widget.waiting
    /\ widget.waiting # {} => widget.disabled
    /\ Thanked => widget.disabled

\* while a submission is in flight, and after a success, no event starts a
\* submission or touches the selection; the step that handles the settled
\* promise leaves the stars disabled exactly when the result is a success
LockedWhileInFlight ==
    /\ (widget.waiting # {} \/ Thanked) =>
          /\ widget'.submitted = widget.submitted
          /\ widget'.selected = widget.selected
          /\ widget'.highlight = widget.highlight
          /\ \A i \in 1..Len(client.calls) :
                client.calls[i].op = "submitRating" => client'.calls[i].sent = client.calls[i].sent
    /\ \A i \in widget.waiting :
          i \notin widget'.waiting =>
              /\ client.calls[i].settled = "resolved"
              /\ widget'.disabled <=> client.calls[i].result = "success"

\* C30: the rating card has at most one submission in flight. From the click
\* (or Enter/Space) that starts a submission until its promise settles the
\* stars are disabled and no click, hover or key starts a second submission or
\* changes the selection; after a result that is not a success the stars are
\* enabled again, and after a success they stay disabled for good.
C30_OneSubmissionInFlight ==
    /\ []OneAtATime
    /\ [][LockedWhileInFlight]_vars

\* a first submission failed, the stars came back, a second one was started by
\* Enter on another star and was thanked for: the stars are disabled and both
\* POSTs were sent one after the other
C30_Witness ==
    /\ widget.submitted = 2
    /\ Thanked /\ widget.disabled /\ widget.waiting = {}
    /\ \E i, j \in 1..Len(client.calls) :
          /\ i < j
          /\ client.calls[i].op = "submitRating" /\ client.calls[i].result = "failed"
          /\ client.calls[j].op = "submitRating" /\ client.calls[j].result = "success"
          /\ client.calls[i].rating # client.calls[j].rating

====
